---- MODULE Spec2Model ----
(***************************************************************************)
(* A model of libbitcoin's consensus validation core (src/src/validate.cpp) *)
(*   - validate_transaction: the asynchronous mempool-admission pipeline,  *)
(*     a chain of callbacks driven by the replies of a blockchain oracle;  *)
(*   - validate_block: the synchronous check_block / accept_block /        *)
(*     connect_block pipeline against an abstract chain view.              *)
(*                                                                         *)
(* Amounts are counted in units of 25,000,000 satoshi (a quarter coin), so *)
(* that max_money and block_value fit TLC's 32-bit integers; heights,      *)
(* timestamps, compact bits and sigop counts keep their real values.       *)
(***************************************************************************)
EXTENDS Integers, Sequences, FiniteSets, TLC

VARIABLES
    tx_,        \* validate_transaction::tx_ (tx_hash_ is tx_.hash)
    pool_,      \* validate_transaction::pool_, the mempool snapshot
    started,    \* whether validate_transaction::start has been called
    vt,         \* the validator's cursors, the oracle's outstanding queries
                \* and the record of what the handler and the oracle did
    depth_,         \* validate_block::depth_
    current_block_, \* validate_block::current_block_
    view_,          \* what the chain view, the clock and the script engine
                    \* answer to this validate_block
    result,         \* what validate_block::start returned
    call,       \* a function of validate.cpp applied on its own: its name
                \* and arguments
    ret,        \* what that function returned: <<>> before it has, then
                \* <<value>>
    buffer      \* a pumpkin_buffer (session.hpp) and the items stored in it

txvars == <<tx_, pool_, started, vt>>

blockvars == <<depth_, current_block_, view_, result>>

unitvars == <<call, ret, buffer>>

vars ==
    <<tx_, pool_, started, vt, depth_, current_block_, view_, result, call, ret,
      buffer>>

----------------------------------------------------------------------------
(* Bounds of the model. *)

\* The longest input list of the transaction handed to validate_transaction.
MaxInputs == 2

----------------------------------------------------------------------------
(* Consensus parameters (bitcoin/constants.hpp, not part of src/). *)

\* Amount units per coin (10^8 satoshi).
Coin == 4

\* max_money() = 21,000,000 coins.
max_money == 21000000 * Coin

coinbase_maturity == 100

\* The largest uint32 (0xFFFFFFFF in the source; the largest integer of TLC
\* here): the index of the null outpoint, the sequence of a final input.
max_uint32 == 2147483647

\* The width of size_t and uint64_t arithmetic, scaled like the amounts:
\* max_money + max_money stays below it, a negative difference wraps.
WordModulus == 1073741824

----------------------------------------------------------------------------
(* Error codes: src/include/bitcoin/error.hpp. "ok" is std::error_code(). *)

OracleCodes == {"ok", "service_stopped", "not_found", "unspent_output"}

----------------------------------------------------------------------------
(* Transactions. *)

NullHash == "0"

OutPoint(h, i) == [hash |-> h, index |-> i]

NullOutPoint == OutPoint(NullHash, max_uint32)

\* A script is its serialized size, its payment type and its operations, the
\* operations run-length encoded: <<code, count>> stands for count
\* consecutive operations with that opcode.
Script(size, type, ops) == [size |-> size, type |-> type, ops |-> ops]

PlainScript == Script(2, "other", <<>>)

Input(prev, script) ==
    [previous_output |-> prev, input_script |-> script, sequence |-> max_uint32]

Output(value, script) == [value |-> value, output_script |-> script]

Tx(h, ins, outs) ==
    [hash |-> h, inputs |-> ins, outputs |-> outs, lock_time |-> 0]

\* previous_output_is_null (bitcoin/transaction.hpp).
previous_output_is_null(p) == p.hash = NullHash /\ p.index = max_uint32

\* is_coinbase (bitcoin/transaction.hpp): exactly one input, and it is null.
is_coinbase(tx) ==
    Len(tx.inputs) = 1 /\ previous_output_is_null(tx.inputs[1].previous_output)

RECURSIVE SumValues(_)
SumValues(outs) ==
    IF outs = <<>> THEN 0
    ELSE (outs[1].value + SumValues(Tail(outs))) % WordModulus

\* total_output_value (bitcoin/transaction.hpp).
total_output_value(tx) == SumValues(tx.outputs)

RECURSIVE check_outputs_sum_only(_, _)
\* The output loop of check_transaction without the test of each value.
check_outputs_sum_only(outs, total) ==
    IF outs = <<>> THEN "ok"
    ELSE LET t == (total + outs[1].value) % WordModulus IN
         IF t > max_money THEN "output_value_overflow"
         ELSE check_outputs_sum_only(Tail(outs), t)

RECURSIVE check_outputs(_, _)
\* validate_transaction::check_transaction: the loop over the outputs, with
\* the running uint64 sum.
check_outputs(outs, total) ==
    IF outs = <<>> THEN "ok"
    ELSE IF outs[1].value > max_money THEN "output_value_overflow"
    ELSE LET t == (total + outs[1].value) % WordModulus IN
         IF t > max_money THEN "output_value_overflow"
         ELSE check_outputs(Tail(outs), t)

check_transaction(tx) ==
    IF tx.inputs = <<>> \/ tx.outputs = <<>> THEN "empty_transaction"
    ELSE LET ec == check_outputs(tx.outputs, 0) IN
         IF ec # "ok" THEN ec
         ELSE IF is_coinbase(tx)
              THEN IF tx.inputs[1].input_script.size < 2
                      \/ tx.inputs[1].input_script.size > 100
                   THEN "invalid_coinbase_script_size"
                   ELSE "ok"
              ELSE IF \E i \in 1..Len(tx.inputs) :
                          previous_output_is_null(tx.inputs[i].previous_output)
                   THEN "previous_output_null"
                   ELSE "ok"

----------------------------------------------------------------------------
(* big_number (bitcoin/big_number.hpp, an OpenSSL BIGNUM): a sign and a    *)
(* magnitude, the magnitude a sequence of bytes, least significant first,  *)
(* with no zero byte at the top.                                           *)

Big(neg, mag) == [neg |-> neg, mag |-> mag]

RECURSIVE Strip(_)
\* mag without its zero bytes at the top.
Strip(mag) ==
    IF mag # <<>> /\ mag[Len(mag)] = 0 THEN Strip(SubSeq(mag, 1, Len(mag) - 1))
    ELSE mag

Reverse(seq) == [i \in 1..Len(seq) |-> seq[Len(seq) + 1 - i]]

Zeros(n) == [i \in 1..n |-> 0]

RECURSIVE MulBytes(_, _, _)
\* mag * m + carry, for 0 <= m < 2^23.
MulBytes(mag, m, carry) ==
    IF mag = <<>>
    THEN IF carry = 0 THEN <<>> ELSE <<carry % 256>> \o MulBytes(<<>>, m, carry \div 256)
    ELSE LET v == mag[1] * m + carry IN
         <<v % 256>> \o MulBytes(Tail(mag), m, v \div 256)

RECURSIVE DivBytes(_, _, _)
\* The quotient of (rem, then the bytes of top, most significant first) by d,
\* most significant byte first, for 0 < d < 2^23.
DivBytes(top, d, rem) ==
    IF top = <<>> THEN <<>>
    ELSE LET v == rem * 256 + top[1] IN
         <<v \div d>> \o DivBytes(Tail(top), d, v % d)

RECURSIVE CmpBytes(_, _)
\* -1, 0, 1 as the magnitude a (stripped) is below, equal to, above b.
CmpBytes(a, b) ==
    IF Len(a) # Len(b) THEN (IF Len(a) < Len(b) THEN -1 ELSE 1)
    ELSE IF a = <<>> THEN 0
    ELSE IF a[Len(a)] # b[Len(b)] THEN (IF a[Len(a)] < b[Len(b)] THEN -1 ELSE 1)
    ELSE CmpBytes(SubSeq(a, 1, Len(a) - 1), SubSeq(b, 1, Len(b) - 1))

\* operator<=>: -1, 0, 1.
big_compare(a, b) ==
    IF a.neg /\ ~b.neg THEN -1
    ELSE IF ~a.neg /\ b.neg THEN 1
    ELSE IF a.neg THEN CmpBytes(b.mag, a.mag)
    ELSE CmpBytes(a.mag, b.mag)

big_zero == Big(FALSE, <<>>)

\* operator*= with a uint64 below 2^23.
big_mul(a, m) ==
    LET mag == Strip(MulBytes(a.mag, m, 0)) IN Big(a.neg /\ mag # <<>>, mag)

\* operator/= with a uint64 below 2^23 (BN_div truncates).
big_div(a, d) ==
    LET mag == Strip(Reverse(DivBytes(Reverse(a.mag), d, 0))) IN
    Big(a.neg /\ mag # <<>>, mag)

\* big_number::set_compact: the top byte of bits is the length in bytes, the
\* low three bytes are the leading bytes of the number, the first of them
\* carrying the sign in its top bit.
set_compact(bits) ==
    LET size == bits \div 16777216
        word == bits % 16777216
        b1 == (word \div 65536) % 128
        b2 == (word \div 256) % 256
        b3 == word % 256
        lead == SubSeq(<<b1, b2, b3>>, 1, IF size < 3 THEN size ELSE 3)
        mag == Strip(Zeros(IF size > 3 THEN size - 3 ELSE 0) \o Reverse(lead))
    IN Big(word >= 8388608 /\ size >= 1 /\ mag # <<>>, mag)

\* big_number::compact: the length and the three leading bytes of the
\* number, with a zero byte put in front when the top bit is taken.
compact(a) ==
    LET padded == IF a.mag # <<>> /\ a.mag[Len(a.mag)] >= 128
                  THEN a.mag \o <<0>> ELSE a.mag
        size == Len(padded)
        byte(k) == IF k <= size THEN padded[size + 1 - k] ELSE 0
    IN size * 16777216
         + (byte(1) + (IF a.neg THEN 128 ELSE 0)) * 65536
         + byte(2) * 256 + byte(3)

\* big_number::set_hash: the digest read as a number, its first byte the
\* most significant.
set_hash(hash) == Big(FALSE, Strip(Reverse(hash)))

\* max_bits (bitcoin/constants.hpp): 0x1d00ffff.
max_bits == 486604799

max_target == set_compact(max_bits)

----------------------------------------------------------------------------
(* validate_transaction.  Every method below is a function from the state  *)
(* of the validator (vt) to its state after the call; tx_ and pool_ are    *)
(* read only.  A query handed to the chain is appended to vt.pending and   *)
(* its callback runs when the oracle answers it.                           *)

NoTx == Tx("none", <<>>, <<>>)

InputIndices == 0..(MaxInputs - 1)

\* The input the cursor is on (the source's tx_.inputs[current_input_]).
current(s) == tx_.inputs[s.current_input + 1]

\* handle_validate_(ec, index_list)
handle_validate(s, ec, list) ==
    [s EXCEPT !.calls = Append(@, [ec |-> ec, index_list |-> list]),
              !.trace = Append(@, "handle_validate")]

\* chain_.fetch_...(.., strand_.wrap(std::bind(callback, ..)))
Issue(s, kind, callback, depth) ==
    [s EXCEPT !.pending = Append(@, [kind |-> kind, callback |-> callback,
                                     parent_depth |-> depth]),
              !.trace = Append(@, kind)]

\* The oracle answers the oldest outstanding query.
Answered(s) == [s EXCEPT !.pending = Tail(@)]

RECURSIVE fetch_from(_, _)
fetch_from(pool, tx_hash) ==
    IF pool = <<>> THEN NoTx
    ELSE IF pool[1].hash = tx_hash THEN pool[1].tx
    ELSE fetch_from(Tail(pool), tx_hash)

\* validate_transaction::fetch: the first pool entry with this hash.
fetch(tx_hash) == fetch_from(pool_, tx_hash)

is_standard == TRUE

\* basic_checks looking for the hash in the pool before the coinbase test.
basic_checks_pool_first ==
    LET ec == check_transaction(tx_) IN
    IF ec # "ok" THEN ec
    ELSE IF fetch(tx_.hash) # NoTx THEN "duplicate"
    ELSE IF is_coinbase(tx_) THEN "coinbase_transaction"
    ELSE IF ~is_standard THEN "is_not_standard"
    ELSE "ok"

basic_checks ==
    LET ec == check_transaction(tx_) IN
    IF ec # "ok" THEN ec
    ELSE IF is_coinbase(tx_) THEN "coinbase_transaction"
    ELSE IF ~is_standard THEN "is_not_standard"
    ELSE IF fetch(tx_.hash) # NoTx THEN "duplicate"
    ELSE "ok"

start(s) ==
    LET ec == basic_checks IN
    IF ec # "ok" THEN handle_validate(s, ec, <<>>)
    ELSE Issue(s, "fetch_transaction", "handle_duplicate_check", 0)

is_spent(outpoint) ==
    \E e \in 1..Len(pool_) : \E i \in 1..Len(pool_[e].tx.inputs) :
        pool_[e].tx.inputs[i].previous_output = outpoint

next_previous_transaction(s) ==
    Issue(s, "fetch_transaction_index", "previous_tx_index", 0)

\* handle_duplicate_check without the return after reporting a duplicate.
handle_duplicate_check_no_return(s, ec) ==
    LET s1 == IF ec # "not_found" THEN handle_validate(s, "duplicate", <<>>)
              ELSE s
    IN
    IF \E i \in 1..Len(tx_.inputs) : is_spent(tx_.inputs[i].previous_output)
    THEN handle_validate(s1, "double_spend", <<>>)
    ELSE Issue(s1, "fetch_last_depth", "set_last_depth", 0)

handle_duplicate_check(s, ec) ==
    IF ec # "not_found" THEN handle_validate(s, "duplicate", <<>>)
    ELSE IF \E i \in 1..Len(tx_.inputs) : is_spent(tx_.inputs[i].previous_output)
         THEN handle_validate(s, "double_spend", <<>>)
    ELSE Issue(s, "fetch_last_depth", "set_last_depth", 0)

set_last_depth(s, ec, last_depth) ==
    IF ec # "ok" THEN handle_validate(s, ec, <<>>)
    ELSE next_previous_transaction(
             [s EXCEPT !.last_block_depth = last_depth,
                       !.value_in = 0,
                       !.current_input = 0])

\* validate_transaction::connect_input; run_ok is what the script engine
\* (output_script.run, a black box) returns.  value_in is passed by
\* reference: the result holds its value after the call.
connect_input(tx, current_input, previous_tx, parent_depth, last_block_depth, value_in, run_ok) ==
    LET previous_outpoint == tx.inputs[current_input + 1].previous_output
        fail == [ok |-> FALSE, value_in |-> value_in]
    IN
    IF previous_outpoint.index >= Len(previous_tx.outputs) THEN fail
    ELSE LET output_value == previous_tx.outputs[previous_outpoint.index + 1].value
             depth_difference == (last_block_depth - parent_depth) % WordModulus
             sum == (value_in + output_value) % WordModulus
         IN
         IF output_value > max_money THEN fail
         ELSE IF is_coinbase(previous_tx) /\ depth_difference < coinbase_maturity
              THEN fail
         ELSE IF ~run_ok THEN fail
         ELSE IF sum > max_money THEN [ok |-> FALSE, value_in |-> sum]
         ELSE [ok |-> TRUE, value_in |-> sum]

\* handle_previous_tx moving on to the next input before the spend check.
handle_previous_tx_advance(s, ec, previous_tx, parent_depth, run_ok) ==
    IF ec # "ok"
    THEN handle_validate(s, "input_not_found", <<s.current_input>>)
    ELSE LET r == connect_input(tx_, s.current_input, previous_tx, parent_depth,
                                s.last_block_depth, s.value_in, run_ok)
             s1 == [s EXCEPT !.value_in = r.value_in,
                             !.current_input = @ + 1]
         IN
         IF ~r.ok THEN handle_validate(s1, "validate_inputs_failed", <<>>)
         ELSE Issue(s1, "fetch_spend", "check_double_spend", 0)

handle_previous_tx(s, ec, previous_tx, parent_depth, run_ok) ==
    IF ec # "ok"
    THEN handle_validate(s, "input_not_found", <<s.current_input>>)
    ELSE LET r == connect_input(tx_, s.current_input, previous_tx, parent_depth,
                                s.last_block_depth, s.value_in, run_ok)
             s1 == [s EXCEPT !.value_in = r.value_in]
         IN
         IF ~r.ok THEN handle_validate(s1, "validate_inputs_failed", <<>>)
         ELSE Issue(s1, "fetch_spend", "check_double_spend", 0)

\* validate_transaction::tally_fees; total_fees is passed by reference.
tally_fees(tx, value_in, total_fees) ==
    LET value_out == total_output_value(tx) IN
    IF value_in < value_out THEN [ok |-> FALSE, total_fees |-> total_fees]
    ELSE LET fees == (total_fees + (value_in - value_out)) % WordModulus IN
         [ok |-> fees <= max_money, total_fees |-> fees]

\* check_fees that refuses a transaction whose fees tally_fees rejects.
check_fees_enforced(s) ==
    LET fee == tally_fees(tx_, s.value_in, 0) IN
    IF fee.ok THEN handle_validate([s EXCEPT !.fee_ok = fee.ok], "ok", s.unconfirmed)
    ELSE handle_validate([s EXCEPT !.fee_ok = fee.ok], "fees_out_of_range", <<>>)

check_fees(s) ==
    LET fee == tally_fees(tx_, s.value_in, 0) IN
    handle_validate([s EXCEPT !.fee_ok = fee.ok], "ok", s.unconfirmed)

\* check_double_spend that stops after the last input without check_fees.
check_double_spend_no_fees(s, ec) ==
    LET s0 == [s EXCEPT !.spend_reply[s.current_input] = ec] IN
    IF ec = "unspent_output"
    THEN LET s1 == [s0 EXCEPT !.current_input = @ + 1] IN
         IF s1.current_input = Len(tx_.inputs) THEN s1
         ELSE next_previous_transaction(s1)
    ELSE handle_validate(s0, "double_spend", <<>>)

\* check_double_spend that takes any reply but a plain success as unspent.
check_double_spend_any_error(s, ec) ==
    LET s0 == [s EXCEPT !.spend_reply[s.current_input] = ec] IN
    IF ec # "ok"
    THEN LET s1 == [s0 EXCEPT !.current_input = @ + 1] IN
         IF s1.current_input = Len(tx_.inputs) THEN check_fees(s1)
         ELSE next_previous_transaction(s1)
    ELSE handle_validate(s0, "double_spend", <<>>)

check_double_spend(s, ec) ==
    LET s0 == [s EXCEPT !.spend_reply[s.current_input] = ec] IN
    IF ec = "unspent_output"
    THEN LET s1 == [s0 EXCEPT !.current_input = @ + 1] IN
         IF s1.current_input = Len(tx_.inputs) THEN check_fees(s1)
         ELSE next_previous_transaction(s1)
    ELSE handle_validate(s0, "double_spend", <<>>)

\* validate_transaction::search_pool_previous_tx.  handle_previous_tx may
\* hand fetch_spend to the chain, and strand_.wrap dispatches a completion
\* made from inside the strand at once: a chain that completes fetch_spend
\* before returning runs check_double_spend here, before the push_back.
\* sync is "deferred" (the reply comes after this call returns) or the code
\* of the reply made inside the call; a query issued by that nested
\* callback is left outstanding.
\* search_pool_previous_tx reporting a miss without the input's index.
search_pool_previous_tx_no_index(s, run_ok, sync) ==
    LET previous_tx == fetch(current(s).previous_output.hash) IN
    IF previous_tx = NoTx
    THEN handle_validate(s, "input_not_found", <<>>)
    ELSE LET s1 == handle_previous_tx(s, "ok", previous_tx, 0, run_ok)
             s2 == IF sync # "deferred" /\ s1.pending # <<>>
                   THEN check_double_spend(Answered(s1), sync)
                   ELSE s1
         IN [s2 EXCEPT !.unconfirmed = Append(@, s2.current_input)]

search_pool_previous_tx(s, run_ok, sync) ==
    LET previous_tx == fetch(current(s).previous_output.hash) IN
    IF previous_tx = NoTx
    THEN handle_validate(s, "input_not_found", <<s.current_input>>)
    ELSE LET s1 == handle_previous_tx(s, "ok", previous_tx, 0, run_ok)
             s2 == IF sync # "deferred" /\ s1.pending # <<>>
                   THEN check_double_spend(Answered(s1), sync)
                   ELSE s1
         IN [s2 EXCEPT !.unconfirmed = Append(@, s2.current_input)]

previous_tx_index(s, ec, parent_depth, run_ok, sync) ==
    LET s0 == [s EXCEPT !.index_reply[s.current_input] = ec] IN
    IF ec # "ok" THEN search_pool_previous_tx(s0, run_ok, sync)
    ELSE Issue(s0, "fetch_transaction", "handle_previous_tx", parent_depth)

----------------------------------------------------------------------------
(* The transactions, mempool snapshots and oracle replies of the model. *)

Spend(h, i) == Input(OutPoint(h, i), PlainScript)

Pay(v) == Output(v, PlainScript)

\* Inputs of the transaction under validation: the null outpoint with a
\* script of legal and of illegal coinbase size, and outpoints of the
\* parents "p" and "q".
InputChoices ==
    { Input(NullOutPoint, PlainScript),
      Input(NullOutPoint, Script(1, "other", <<>>)),
      Spend("p", 0), Spend("p", 1), Spend("q", 0) }

OutputChoices ==
    { <<>>, <<Pay(1)>>, <<Pay(3)>>, <<Pay(max_money), Pay(1)>> }

SeqsUpTo(S, n) == UNION { [1..k -> S] : k \in 0..n }

TxChoices == { Tx("t", ins, outs) : ins \in SeqsUpTo(InputChoices, MaxInputs),
                                    outs \in OutputChoices }

\* Mempool entries (transaction_entry_info: hash, tx): the parent "p", an
\* entry with the hash of the transaction under validation, and an entry
\* that spends q:0.
PoolParent == [hash |-> "p", tx |-> Tx("p", <<Spend("g", 0)>>, <<Pay(1), Pay(2)>>)]

PoolSame == [hash |-> "t", tx |-> Tx("t", <<Spend("g", 1)>>, <<Pay(1)>>)]

PoolSpender == [hash |-> "s", tx |-> Tx("s", <<Spend("q", 0)>>, <<Pay(1)>>)]

PoolChoices ==
    { <<>>, <<PoolParent>>, <<PoolSame>>, <<PoolSpender>>,
      <<PoolParent, PoolSame>>, <<PoolParent, PoolSpender>> }

\* What fetch_last_depth and fetch_transaction_index answer.
LastDepths == {120, 150}

ParentDepths == {50, 51, 151}

\* The bodies fetch_transaction answers with.
ChainTxs ==
    { Tx("c", <<Input(NullOutPoint, PlainScript)>>, <<Pay(1)>>),
      Tx("c", <<Input(NullOutPoint, PlainScript)>>, <<Pay(2), Pay(max_money)>>),
      Tx("n", <<Spend("g", 0)>>, <<Pay(1)>>),
      Tx("n", <<Spend("g", 0)>>, <<Pay(2), Pay(max_money)>>),
      Tx("n", <<Spend("g", 0)>>, <<Pay(max_money + 1)>>) }

NoReplies == [i \in InputIndices |-> "none"]

\* The validator after construction: no query issued, unconfirmed_ empty.
\* current_input_, value_in_ and last_block_depth_ are set by
\* set_last_depth before anything reads them.
InitValidator ==
    [ current_input |-> 0, value_in |-> 0, last_block_depth |-> 0,
      unconfirmed |-> <<>>, pending |-> <<>>, calls |-> <<>>, trace |-> <<>>,
      fee_ok |-> TRUE, dup_reply |-> "none", depth_reply |-> "none",
      index_reply |-> NoReplies, tx_reply |-> NoReplies,
      spend_reply |-> NoReplies ]

\* No validate_block is at work in the runs of validate_transaction.
NoBlock ==
    [bits |-> 0, timestamp |-> 0, hash |-> <<>>, merkle |-> <<>>,
     raw_size |-> 0, transactions |-> <<>>]

NoView ==
    [now |-> 0, previous_block_bits |-> 0, actual_timespan |-> 0,
     median_time_past |-> 0, txs |-> <<>>, spent |-> {}, run_fails |-> {},
     wild_read |-> <<>>]

NotConnected ==
    [ec |-> "not_run", fees |-> 0, total_sigops |-> 0, peak |-> 0,
     fault |-> FALSE, asserted |-> TRUE, value_ins |-> <<>>]

NotStarted ==
    [check |-> "not_run", accept |-> "not_run", connect |-> NotConnected,
     ec |-> "not_run"]

\* No function applied on its own.
NoCall == [fn |-> "none"]

\* pumpkin_buffer::pumpkin_buffer(max_size).  stored lists the items given
\* to store, in order; aborted tells that a BITCOIN_ASSERT stopped the
\* program, failed names the assertion of store whose condition was false
\* ("none" while all held), fault tells that an access outside expiry_
\* ended the program.
pumpkin_buffer(max_size) ==
    [lookup_ |-> {}, expiry_ |-> <<>>, max_size_ |-> max_size, pointer_ |-> 0,
     stored |-> <<>>, aborted |-> FALSE, failed |-> "none", fault |-> FALSE]

\* No pumpkin_buffer constructed.
NoBuffer == pumpkin_buffer(0)

InitTx ==
    /\ tx_ \in TxChoices
    /\ pool_ \in PoolChoices
    /\ started = FALSE
    /\ vt = InitValidator
    /\ depth_ = 0
    /\ current_block_ = NoBlock
    /\ view_ = NoView
    /\ result = NotStarted
    /\ call = NoCall
    /\ ret = <<>>
    /\ buffer = NoBuffer

Awaiting(callback) ==
    /\ vt.pending # <<>>
    /\ Head(vt.pending).callback = callback

\* validate_transaction::start, called once by the owner.
Start ==
    /\ ~started
    /\ started' = TRUE
    /\ vt' = start(vt)
    /\ UNCHANGED <<tx_, pool_, blockvars, unitvars>>

\* The reply to the duplicate check's fetch_transaction.
HandleDuplicateCheck ==
    /\ Awaiting("handle_duplicate_check")
    /\ \E ec \in OracleCodes :
          vt' = handle_duplicate_check([Answered(vt) EXCEPT !.dup_reply = ec], ec)
    /\ UNCHANGED <<tx_, pool_, started, blockvars, unitvars>>

\* The reply to fetch_last_depth.
SetLastDepth ==
    /\ Awaiting("set_last_depth")
    /\ \E ec \in OracleCodes, d \in LastDepths :
          vt' = set_last_depth([Answered(vt) EXCEPT !.depth_reply = ec], ec, d)
    /\ UNCHANGED <<tx_, pool_, started, blockvars, unitvars>>

\* The reply to fetch_transaction_index.
PreviousTxIndex ==
    /\ Awaiting("previous_tx_index")
    /\ \E ec \in OracleCodes, d \in ParentDepths, run_ok \in BOOLEAN,
          sync \in OracleCodes \cup {"deferred"} :
          vt' = previous_tx_index(Answered(vt), ec, d, run_ok, sync)
    /\ UNCHANGED <<tx_, pool_, started, blockvars, unitvars>>

\* The reply to the fetch_transaction of a parent's body.
HandlePreviousTx ==
    /\ Awaiting("handle_previous_tx")
    /\ \E ec \in OracleCodes, previous_tx \in ChainTxs, run_ok \in BOOLEAN :
          vt' = handle_previous_tx(
                    [Answered(vt) EXCEPT !.tx_reply[vt.current_input] = ec],
                    ec, previous_tx, Head(vt.pending).parent_depth, run_ok)
    /\ UNCHANGED <<tx_, pool_, started, blockvars, unitvars>>

\* The reply to fetch_spend.
CheckDoubleSpend ==
    /\ Awaiting("check_double_spend")
    /\ \E ec \in OracleCodes : vt' = check_double_spend(Answered(vt), ec)
    /\ UNCHANGED <<tx_, pool_, started, blockvars, unitvars>>

OracleReply ==
    \/ HandleDuplicateCheck
    \/ SetLastDepth
    \/ PreviousTxIndex
    \/ HandlePreviousTx
    \/ CheckDoubleSpend

NextTx == Start \/ OracleReply

SpecTx == InitTx /\ [][NextTx]_vars

\* Every query the validator issues is eventually answered.
SpecTxFair == SpecTx /\ WF_vars(OracleReply)

----------------------------------------------------------------------------
(* Properties of validate_transaction. *)

QueryKinds ==
    {"fetch_transaction", "fetch_last_depth", "fetch_transaction_index",
     "fetch_spend"}

Handled == vt.calls # <<>>

HandledWith(ec) == \E k \in 1..Len(vt.calls) : vt.calls[k].ec = ec

\* C1: the validate handler is invoked at most once, and once it has been
\* invoked no oracle query is issued any more and none is outstanding.
C1_HandlerAtMostOnce ==
    /\ Len(vt.calls) <= 1
    /\ \A i, j \in 1..Len(vt.trace) :
          (i < j /\ vt.trace[i] = "handle_validate")
              => vt.trace[j] \notin QueryKinds
    /\ Handled => vt.pending = <<>>

\* A run that went through every kind of query and ended in the handler.
C1_Witness ==
    /\ Len(vt.calls) = 1
    /\ \A q \in QueryKinds : \E i \in 1..Len(vt.trace) : vt.trace[i] = q

\* C2: once started, the validator eventually invokes the handler, and it
\* never sits with no query outstanding and no handler call made.
C2_EventuallyHandled ==
    /\ [](started /\ ~Handled => vt.pending # <<>>)
    /\ (started ~> Handled)

\* The handler reached after the spend checks of two inputs.
C2_Witness ==
    /\ Handled
    /\ vt.current_input >= 1
    /\ vt.spend_reply[0] = "unspent_output"
    /\ vt.spend_reply[1] # "none"

\* A query about an input of tx_ is outstanding.
InputQueryPending ==
    \E k \in 1..Len(vt.pending) :
        vt.pending[k].kind \in {"fetch_transaction_index", "fetch_transaction",
                                "fetch_spend"}
        /\ vt.pending[k].callback # "handle_duplicate_check"

\* C15: at most one oracle query is outstanding; current_input_ moves from
\* i to i + 1 only upon the reply unspent_output to the fetch_spend of
\* input i; while a query about an input is outstanding current_input_ is
\* the index of an input, every earlier input has passed its spend check and
\* no later input has had a query answered.
C15_InputsInSequence ==
    /\ [](/\ Len(vt.pending) <= 1
          /\ InputQueryPending =>
                 /\ 0 <= vt.current_input
                 /\ vt.current_input < Len(tx_.inputs)
                 /\ \A j \in InputIndices :
                        /\ j < vt.current_input =>
                               vt.spend_reply[j] = "unspent_output"
                        /\ j > vt.current_input =>
                               /\ vt.index_reply[j] = "none"
                               /\ vt.tx_reply[j] = "none"
                               /\ vt.spend_reply[j] = "none"
                        /\ j = vt.current_input /\ Awaiting("previous_tx_index") =>
                               /\ vt.index_reply[j] = "none"
                               /\ vt.spend_reply[j] = "none")
    /\ [][vt'.current_input # vt.current_input =>
              /\ vt'.current_input = vt.current_input + 1
              /\ vt'.spend_reply[vt.current_input] = "unspent_output"
              /\ vt.spend_reply[vt.current_input] = "none"]_vars

\* The second input's spend check outstanding after the first one passed.
C15_Witness ==
    /\ Awaiting("check_double_spend")
    /\ vt.current_input = 1
    /\ vt.spend_reply[0] = "unspent_output"

\* The error of the first initial check that fails, "ok" when none does.
FirstInitialError ==
    IF check_transaction(tx_) # "ok" THEN check_transaction(tx_)
    ELSE IF Len(tx_.inputs) = 1 /\ tx_.inputs[1].previous_output = NullOutPoint
         THEN "coinbase_transaction"
    ELSE IF ~is_standard THEN "is_not_standard"
    ELSE IF \E k \in 1..Len(pool_) : pool_[k].hash = tx_.hash THEN "duplicate"
    ELSE "ok"

\* C16: when an initial check of start fails the handler gets the error of
\* the first failing check (check_transaction, coinbase_transaction,
\* is_not_standard, duplicate) with an empty index list and no oracle query
\* is ever issued; a coinbase that passes check_transaction ends with
\* (coinbase_transaction, []).
C16_InitialChecks ==
    started =>
        /\ FirstInitialError # "ok" =>
               /\ vt.calls = <<[ec |-> FirstInitialError, index_list |-> <<>>]>>
               /\ vt.trace = <<"handle_validate">>
               /\ vt.pending = <<>>
        /\ FirstInitialError = "ok" => vt.trace[1] = "fetch_transaction"
        /\ check_transaction(tx_) = "ok" /\ is_coinbase(tx_) =>
               vt.calls = <<[ec |-> "coinbase_transaction", index_list |-> <<>>]>>

\* A coinbase refused as such although the pool holds its hash.
C16_Witness ==
    /\ started
    /\ vt.calls = <<[ec |-> "coinbase_transaction", index_list |-> <<>>]>>
    /\ \E k \in 1..Len(pool_) : pool_[k].hash = tx_.hash

\* A transaction refused for its hash in the pool.
C16_Duplicate ==
    /\ started
    /\ vt.calls = <<[ec |-> "duplicate", index_list |-> <<>>]>>
    /\ vt.trace = <<"handle_validate">>

\* The parent of input i came neither from the chain nor from the pool.
ParentMissing(i) ==
    \/ /\ vt.index_reply[i] \notin {"none", "ok"}
       /\ ~\E k \in 1..Len(pool_) :
              pool_[k].hash = tx_.inputs[i + 1].previous_output.hash
    \/ /\ vt.index_reply[i] = "ok"
       /\ vt.tx_reply[i] \notin {"none", "ok"}

\* C17: when the parent of input i is found neither in the chain nor in the
\* pool the handler gets input_not_found with the index list [i], and the
\* inputs before i have passed their spend check; input_not_found is given
\* for no other reason.
C17_InputNotFound ==
    /\ \A i \in 0..(Len(tx_.inputs) - 1) :
           ParentMissing(i) =>
               /\ vt.calls = <<[ec |-> "input_not_found", index_list |-> <<i>>]>>
               /\ vt.current_input = i
               /\ \A j \in 0..(i - 1) : vt.spend_reply[j] = "unspent_output"
    /\ HandledWith("input_not_found") => ParentMissing(vt.current_input)

\* The second input's parent missing from chain and pool.
C17_Witness ==
    /\ vt.calls = <<[ec |-> "input_not_found", index_list |-> <<1>>]>>
    /\ vt.index_reply[1] = "not_found"
    /\ vt.spend_reply[0] = "unspent_output"

\* The first input's parent indexed by the chain, its body not fetched.
C17_BodyMissing ==
    /\ vt.calls = <<[ec |-> "input_not_found", index_list |-> <<0>>]>>
    /\ vt.index_reply[0] = "ok"
    /\ vt.tx_reply[0] = "service_stopped"

RECURSIVE PoolParents(_)
\* The ascending list of the inputs from i on whose parent was not found in
\* the chain index and is in the mempool snapshot.
PoolParents(i) ==
    IF i >= Len(tx_.inputs) THEN <<>>
    ELSE (IF vt.index_reply[i] \notin {"none", "ok"}
             /\ fetch(tx_.inputs[i + 1].previous_output.hash) # NoTx
          THEN <<i>> ELSE <<>>) \o PoolParents(i + 1)

\* C3: a handler call with OK carries exactly the ascending list of the
\* inputs whose parent is unconfirmed and in the mempool snapshot, also when
\* the fetch_spend reply arrives before search_pool_previous_tx returns.
C3_UnconfirmedList ==
    \A k \in 1..Len(vt.calls) :
        vt.calls[k].ec = "ok" => vt.calls[k].index_list = PoolParents(0)

Unexpected(reply, sentinel) == reply \notin {"none", "ok", sentinel}

\* C4: an oracle error other than the expected sentinel (not_found for the
\* duplicate check, unspent_output for fetch_spend) reaches the handler as
\* the code that was received.
C4_ErrorsPropagate ==
    /\ Unexpected(vt.dup_reply, "not_found")
          => Handled /\ vt.calls[Len(vt.calls)].ec = vt.dup_reply
    /\ \A i \in InputIndices :
          Unexpected(vt.spend_reply[i], "unspent_output")
              => Handled /\ vt.calls[Len(vt.calls)].ec = vt.spend_reply[i]

\* C5: a handler call with OK means that for every input fetch_spend was
\* answered unspent_output and no mempool entry spends its previous output.
C5_AcceptedInputsUnspent ==
    HandledWith("ok") =>
        \A i \in 0..(Len(tx_.inputs) - 1) :
            /\ vt.spend_reply[i] = "unspent_output"
            /\ ~is_spent(tx_.inputs[i + 1].previous_output)

\* A two-input transaction accepted against a mempool that spends other
\* outpoints.
C5_Witness ==
    /\ HandledWith("ok")
    /\ Len(tx_.inputs) >= 2
    /\ pool_ # <<>>
    /\ \A i \in 0..(Len(tx_.inputs) - 1) : vt.spend_reply[i] = "unspent_output"

\* The spend check of the last input was answered unspent_output.
LastSpendUnspent ==
    /\ tx_.inputs # <<>>
    /\ vt.spend_reply[Len(tx_.inputs) - 1] = "unspent_output"

\* C23: once the spend check of the last input is answered unspent_output
\* the handler is invoked with OK, whatever tally_fees returns: whether
\* value_in_ is below the sum of the outputs or not.
C23_FeesIgnored ==
    LastSpendUnspent =>
        /\ Len(vt.calls) = 1
        /\ vt.calls[1].ec = "ok"
        /\ vt.fee_ok = tally_fees(tx_, vt.value_in, 0).ok

\* A transaction paying more than it spends, accepted.
C23_Witness ==
    /\ LastSpendUnspent
    /\ vt.value_in < total_output_value(tx_)
    /\ ~vt.fee_ok
    /\ HandledWith("ok")

\* A transaction paying less than it spends, accepted.
C23_FeePaid ==
    /\ LastSpendUnspent
    /\ vt.value_in > total_output_value(tx_)
    /\ vt.fee_ok
    /\ HandledWith("ok")

\* C26: the handler is not invoked with OK for a transaction in which two
\* different inputs name the same previous outpoint.
C26_NoRepeatedOutpoint ==
    HandledWith("ok") =>
        \A i, j \in 1..Len(tx_.inputs) :
            i # j => tx_.inputs[i].previous_output # tx_.inputs[j].previous_output

\* A transaction whose inputs name different outpoints, accepted: value_in_
\* is at most the sum of the largest values the outpoints can have.
C26_DistinctAccepted ==
    /\ HandledWith("ok")
    /\ Len(tx_.inputs) = 2
    /\ tx_.inputs[1].previous_output # tx_.inputs[2].previous_output

\* A transaction spending p:0 twice, accepted with the value of p:0 counted
\* twice in value_in_.
C26_CountedTwice ==
    /\ HandledWith("ok")
    /\ tx_.inputs = <<Spend("p", 0), Spend("p", 0)>>
    /\ pool_ = <<PoolParent>>
    /\ vt.index_reply[0] # "ok"
    /\ vt.index_reply[1] # "ok"
    /\ vt.value_in = 2 * PoolParent.tx.outputs[1].value

----------------------------------------------------------------------------
(* validate_block: start() and its three phases, against the chain view    *)
(* (the pure virtual methods of validate_block, answered by view_), the    *)
(* wall clock and the script engine.                                       *)

max_block_size == 1000000

max_block_script_sig_operations == max_block_size \div 50

\* bitcoin/constants.hpp
readjustment_interval == 2016

target_timespan == 1209600

bip16_switchover_timestamp == 1333238400

bip16_switchover_depth == 173805

\* block_value (bitcoin/constants.hpp): 50 coins, halved every 210000 blocks.
block_value(depth) == (50 * Coin) \div (2 ^ (depth \div 210000))

\* The raw byte of an opcode (bitcoin/script.hpp): op_1 .. op_16 are 1 .. 16.
OpNumbers ==
    <<"op_1", "op_2", "op_3", "op_4", "op_5", "op_6", "op_7", "op_8", "op_9",
      "op_10", "op_11", "op_12", "op_13", "op_14", "op_15", "op_16">>

RawCode(code) ==
    IF \E k \in 1..16 : OpNumbers[k] = code
    THEN CHOOSE k \in 1..16 : OpNumbers[k] = code
    ELSE CASE code = "checksig" -> 172
           [] code = "checksigverify" -> 173
           [] code = "checkmultisig" -> 174
           [] code = "checkmultisigverify" -> 175
           [] OTHER -> 0

\* An operation of a script: n consecutive operations with this opcode; data
\* is what parse_script makes of the bytes a push carries.
Op(code, n) == [code |-> code, n |-> n, data |-> <<>>]

Push(ops) == [code |-> "special", n |-> 1, data |-> ops]

RECURSIVE count_sigops_from(_, _, _, _)
count_sigops_from(operations, accurate, total_sigs, last_number) ==
    IF operations = <<>> THEN total_sigs
    ELSE LET op == operations[1]
             added ==
                 IF op.code \in {"checksig", "checksigverify"} THEN op.n
                 ELSE IF op.code \in {"checkmultisig", "checkmultisigverify"}
                      THEN IF accurate /\ last_number # 0
                           THEN op.n * last_number
                           ELSE op.n * 20
                 ELSE 0
             raw_code == RawCode(op.code)
         IN count_sigops_from(Tail(operations), accurate,
                (total_sigs + added) % WordModulus,
                IF RawCode("op_1") <= raw_code /\ RawCode("op_16") >= raw_code
                THEN raw_code ELSE last_number)

\* count_script_sigops taking every count for a legacy one.
count_script_sigops_legacy(operations, accurate) ==
    count_sigops_from(operations, FALSE, 0, 0)

count_script_sigops(operations, accurate) ==
    count_sigops_from(operations, accurate, 0, 0)

RECURSIVE SumSigops(_, _)
\* The legacy count over a list of inputs (field "input_script") or of
\* outputs (field "output_script").
SumSigops(items, field) ==
    IF items = <<>> THEN 0
    ELSE (count_script_sigops(items[1][field].ops, FALSE)
            + SumSigops(Tail(items), field)) % WordModulus

tx_legacy_sigops_count(tx) ==
    (SumSigops(tx.inputs, "input_script")
       + SumSigops(tx.outputs, "output_script")) % WordModulus

RECURSIVE legacy_sigops_of(_)
legacy_sigops_of(transactions) ==
    IF transactions = <<>> THEN 0
    ELSE (tx_legacy_sigops_count(transactions[1])
            + legacy_sigops_of(Tail(transactions))) % WordModulus

legacy_sigops_count(block) == legacy_sigops_of(block.transactions)

\* check_proof_of_work without the test of the target's sign.
check_proof_of_work_no_sign(block_hash, bits) ==
    LET target == set_compact(bits) IN
    IF big_compare(target, max_target) > 0
    THEN FALSE
    ELSE big_compare(set_hash(block_hash), target) <= 0

check_proof_of_work(block_hash, bits) ==
    LET target == set_compact(bits) IN
    IF big_compare(target, big_zero) <= 0 \/ big_compare(target, max_target) > 0
    THEN FALSE
    ELSE big_compare(set_hash(block_hash), target) <= 0

\* A merkle hash: <<h>> for the transaction hash h, <<a, b>> for the hash of
\* the merkle hashes a and b; <<>> is the null hash.
NullMerkle == <<>>

RECURSIVE MerkleLevel(_)
\* One level of the merkle tree: the hashes paired, the last one with itself
\* when the level is odd.
MerkleLevel(hashes) ==
    IF hashes = <<>> THEN <<>>
    ELSE IF Len(hashes) = 1 THEN << <<hashes[1], hashes[1]>> >>
    ELSE << <<hashes[1], hashes[2]>> >> \o MerkleLevel(SubSeq(hashes, 3, Len(hashes)))

RECURSIVE MerkleRoot(_)
MerkleRoot(hashes) ==
    IF Len(hashes) = 1 THEN hashes[1] ELSE MerkleRoot(MerkleLevel(hashes))

\* generate_merkle_root (bitcoin/block.hpp)
generate_merkle_root(transactions) ==
    IF transactions = <<>> THEN NullMerkle
    ELSE MerkleRoot([i \in 1..Len(transactions) |-> <<transactions[i].hash>>])

RECURSIVE first_check_transaction_error(_)
first_check_transaction_error(transactions) ==
    IF transactions = <<>> THEN "ok"
    ELSE LET ec == check_transaction(transactions[1]) IN
         IF ec # "ok" THEN ec
         ELSE first_check_transaction_error(Tail(transactions))

\* check_block testing the timestamp before the proof of work.
check_block_timestamp_first(block, now) ==
    IF block.transactions = <<>>
       \/ Len(block.transactions) > max_block_size
       \/ block.raw_size > max_block_size
    THEN "size_limits"
    ELSE IF block.timestamp > now + 2 * 3600 THEN "futuristic_timestamp"
    ELSE IF ~check_proof_of_work(block.hash, block.bits) THEN "proof_of_work"
    ELSE IF ~is_coinbase(block.transactions[1]) THEN "first_not_coinbase"
    ELSE IF \E i \in 2..Len(block.transactions) : is_coinbase(block.transactions[i])
         THEN "extra_coinbases"
    ELSE IF first_check_transaction_error(block.transactions) # "ok"
         THEN first_check_transaction_error(block.transactions)
    ELSE IF Cardinality({ block.transactions[i].hash :
                              i \in 1..Len(block.transactions) })
                # Len(block.transactions)
         THEN "duplicate"
    ELSE IF legacy_sigops_count(block) > max_block_script_sig_operations
         THEN "too_many_sigs"
    ELSE IF block.merkle # generate_merkle_root(block.transactions)
         THEN "merkle_mismatch"
    ELSE "ok"

\* validate_block::check_block; now is second_clock::universal_time().
check_block(block, now) ==
    IF block.transactions = <<>>
       \/ Len(block.transactions) > max_block_size
       \/ block.raw_size > max_block_size
    THEN "size_limits"
    ELSE IF ~check_proof_of_work(block.hash, block.bits) THEN "proof_of_work"
    ELSE IF block.timestamp > now + 2 * 3600 THEN "futuristic_timestamp"
    ELSE IF ~is_coinbase(block.transactions[1]) THEN "first_not_coinbase"
    ELSE IF \E i \in 2..Len(block.transactions) : is_coinbase(block.transactions[i])
         THEN "extra_coinbases"
    ELSE LET ec == first_check_transaction_error(block.transactions)
             unique_txs == { block.transactions[i].hash :
                                 i \in 1..Len(block.transactions) }
         IN
         IF ec # "ok" THEN ec
         ELSE IF Cardinality(unique_txs) # Len(block.transactions) THEN "duplicate"
         ELSE IF legacy_sigops_count(block) > max_block_script_sig_operations
              THEN "too_many_sigs"
         ELSE IF block.merkle # generate_merkle_root(block.transactions)
              THEN "merkle_mismatch"
         ELSE "ok"

\* The checkpoints of validate_block::passes_checkpoints: a height and the
\* header hash required there, byte by byte as the source lists it.
Checkpoints ==
    << [depth |-> 11111, hash |->
          <<0, 0, 0, 0, 105, 226, 68, 247, 61, 120, 232, 253, 41, 186, 47, 210,
            237, 97, 139, 214, 250, 46, 233, 37, 89, 245, 66, 253, 178, 110, 124, 29>>],
       [depth |-> 33333, hash |->
          <<0, 0, 0, 0, 45, 213, 88, 138, 116, 120, 78, 170, 122, 176, 80, 122,
            24, 173, 22, 162, 54, 231, 177, 206, 105, 240, 13, 125, 223, 181, 208, 166>>],
       [depth |-> 68555, hash |->
          <<0, 0, 0, 0, 0, 30, 27, 73, 3, 85, 10, 11, 150, 233, 169, 64,
            92, 138, 149, 243, 135, 22, 46, 73, 68, 232, 217, 251, 229, 1, 205, 106>>],
       [depth |-> 70567, hash |->
          <<0, 0, 0, 0, 0, 106, 73, 177, 75, 207, 39, 70, 32, 104, 241, 38,
            76, 150, 31, 17, 250, 46, 14, 221, 210, 190, 7, 145, 225, 212, 18, 74>>],
       [depth |-> 74000, hash |->
          <<0, 0, 0, 0, 0, 87, 57, 147, 163, 201, 228, 28, 227, 68, 113, 192,
            121, 220, 245, 245, 42, 14, 130, 74, 129, 231, 249, 83, 184, 102, 26, 32>>],
       [depth |-> 105000, hash |->
          <<0, 0, 0, 0, 0, 2, 145, 206, 40, 2, 127, 174, 163, 32, 200, 210,
            176, 84, 178, 224, 254, 68, 167, 115, 243, 238, 251, 21, 29, 107, 220, 151>>],
       [depth |-> 118000, hash |->
          <<0, 0, 0, 0, 0, 0, 119, 74, 127, 138, 122, 18, 220, 144, 109, 219,
            158, 23, 231, 93, 104, 79, 21, 224, 15, 135, 103, 249, 232, 243, 101, 83>>],
       [depth |-> 134444, hash |->
          <<0, 0, 0, 0, 0, 0, 5, 177, 47, 253, 76, 211, 21, 205, 52, 255,
            212, 165, 148, 244, 48, 172, 129, 76, 145, 24, 74, 13, 66, 210, 176, 254>>],
       [depth |-> 140700, hash |->
          <<0, 0, 0, 0, 0, 0, 3, 59, 81, 32, 40, 171, 185, 14, 22, 38,
            216, 179, 70, 253, 14, 213, 152, 172, 10, 60, 55, 17, 56, 220, 226, 189>>],
       [depth |-> 168000, hash |->
          <<0, 0, 0, 0, 0, 0, 9, 158, 97, 234, 114, 1, 94, 121, 99, 47,
            33, 111, 230, 203, 51, 215, 137, 154, 203, 53, 183, 92, 131, 3, 183, 99>>],
       [depth |-> 193000, hash |->
          <<0, 0, 0, 0, 0, 0, 5, 159, 69, 42, 95, 115, 64, 222, 102, 130,
            169, 119, 56, 124, 23, 1, 15, 246, 230, 195, 189, 131, 202, 139, 19, 23>>],
       [depth |-> 210000, hash |->
          <<0, 0, 0, 0, 0, 0, 4, 139, 149, 52, 126, 131, 25, 47, 105, 207,
            3, 102, 7, 99, 54, 198, 57, 249, 183, 34, 142, 155, 161, 113, 52, 46>>],
       [depth |-> 216116, hash |->
          <<0, 0, 0, 0, 0, 0, 1, 180, 244, 180, 51, 232, 30, 228, 100, 148,
            175, 148, 92, 249, 96, 20, 129, 106, 78, 35, 112, 241, 27, 35, 223, 78>>] >>

\* passes_checkpoints with its table left out.
passes_checkpoints_no_table(depth, block_hash) == TRUE

passes_checkpoints(depth, block_hash) ==
    \A k \in 1..Len(Checkpoints) :
        ~(depth = Checkpoints[k].depth /\ block_hash # Checkpoints[k].hash)

\* range_constraint without its minimum.
range_constraint_no_minimum(value, minimum, maximum) ==
    IF value > maximum THEN maximum ELSE value

range_constraint(value, minimum, maximum) ==
    IF value < minimum THEN minimum
    ELSE IF value > maximum THEN maximum
    ELSE value

\* validate_block::work_required; previous_block_bits() and
\* actual_timespan(readjustment_interval) are answered by the chain view.
work_required(depth, view) ==
    IF depth = 0 THEN max_bits
    ELSE IF depth % readjustment_interval # 0 THEN view.previous_block_bits
    ELSE LET actual == range_constraint(view.actual_timespan,
                           target_timespan \div 4, target_timespan * 4)
             retarget == big_div(big_mul(set_compact(view.previous_block_bits),
                                         actual), target_timespan)
         IN
         IF big_compare(retarget, max_target) > 0 THEN compact(max_target)
         ELSE compact(retarget)

locktime_threshold == 500000000

\* is_final (bitcoin/transaction.hpp)
is_final(tx, depth, block_time) ==
    \/ tx.lock_time = 0
    \/ tx.lock_time < (IF tx.lock_time < locktime_threshold THEN depth
                       ELSE block_time)
    \/ \A i \in 1..Len(tx.inputs) : tx.inputs[i].sequence = max_uint32

\* validate_block::accept_block
\* accept_block without the comparison of bits with work_required().
accept_block_no_work(depth, block, view) ==
    IF block.timestamp <= view.median_time_past THEN "timestamp_too_early"
    ELSE IF \E i \in 1..Len(block.transactions) :
                ~is_final(block.transactions[i], depth, block.timestamp)
         THEN "non_final_transaction"
    ELSE IF ~passes_checkpoints(depth, block.hash) THEN "checkpoints_failed"
    ELSE "ok"

accept_block(depth, block, view) ==
    IF block.bits # work_required(depth, view) THEN "incorrect_proof_of_work"
    ELSE IF block.timestamp <= view.median_time_past THEN "timestamp_too_early"
    ELSE IF \E i \in 1..Len(block.transactions) :
                ~is_final(block.transactions[i], depth, block.timestamp)
         THEN "non_final_transaction"
    ELSE IF ~passes_checkpoints(depth, block.hash) THEN "checkpoints_failed"
    ELSE "ok"

\* The chain view's transaction_exists(hash).
transaction_exists(view, tx_hash) ==
    \E k \in 1..Len(view.txs) : view.txs[k].hash = tx_hash

\* The chain view's fetch_transaction(tx, depth, hash): the entry, or none.
NoEntry == [hash |-> "none", tx |-> NoTx, depth |-> 0]

RECURSIVE chain_entry(_, _)
chain_entry(entries, tx_hash) ==
    IF entries = <<>> THEN NoEntry
    ELSE IF entries[1].hash = tx_hash THEN entries[1]
    ELSE chain_entry(Tail(entries), tx_hash)

\* The chain view's is_output_spent(outpoint).
is_output_spent(view, outpoint) == outpoint \in view.spent

\* The chain view's is_output_spent(outpoint, index_in_parent, input_index):
\* spent in the chain, or by an earlier input of the block being connected.
is_output_spent_within(view, block, outpoint, index_in_parent, input_index) ==
    \/ outpoint \in view.spent
    \/ \E t \in 1..Len(block.transactions) :
          \E i \in 1..Len(block.transactions[t].inputs) :
              /\ block.transactions[t].inputs[i].previous_output = outpoint
              /\ \/ t - 1 < index_in_parent
                 \/ t - 1 = index_in_parent /\ i - 1 < input_index

\* script::run(input_script, tx, index, bip16_enabled), a black box: the view
\* names the previous outputs whose script fails.
script_run(view, input, bip16_enabled) == input.previous_output \notin view.run_fails

not_duplicate_or_spent(view, tx) ==
    IF ~transaction_exists(view, tx.hash) THEN TRUE
    ELSE \A output_index \in 0..(Len(tx.outputs) - 1) :
             is_output_spent(view, OutPoint(tx.hash, output_index))

\* parse_script(data)
parse_script(data) == Script(2, "other", data)

script_hash_signature_operations_count(output_script, input_script) ==
    IF output_script.type # "script_hash"
    THEN count_script_sigops(output_script.ops, TRUE)
    ELSE IF input_script.ops = <<>> THEN 0
    ELSE count_script_sigops(
             parse_script(input_script.ops[Len(input_script.ops)].data).ops, TRUE)

Max(a, b) == IF a > b THEN a ELSE b

\* The running state of validate_inputs with its return value false.
reject_input(c) == [c EXCEPT !.ok = FALSE]

\* total_sigops after an addition, with the largest value it has had.
with_sigops(c, total_sigops) ==
    [c EXCEPT !.total_sigops = total_sigops, !.peak = Max(@, total_sigops)]

\* validate_block::connect_input from the script run on: the BIP16
\* assertion, script::run, the double-spend search and the value_in sum.
connect_input_spend(depth, block, view, index_in_parent, input, input_index, output_value, bip16_enabled, c) ==
    IF ~script_run(view, input, bip16_enabled) THEN reject_input(c)
    ELSE IF is_output_spent_within(view, block, input.previous_output,
                                   index_in_parent, input_index)
         THEN reject_input(c)
    ELSE IF (c.value_in + output_value) % WordModulus > max_money
         THEN [c EXCEPT !.ok = FALSE,
                        !.value_in = (@ + output_value) % WordModulus]
    ELSE [c EXCEPT !.value_in = (@ + output_value) % WordModulus]

\* connect_input without the limit on total_sigops.
connect_input_output_unlimited(depth, block, view, index_in_parent, input, input_index, entry, output_value, c) ==
    IF output_value > max_money THEN reject_input(c)
    ELSE IF is_coinbase(entry.tx)
            /\ (depth - entry.depth) % WordModulus < coinbase_maturity
         THEN reject_input(c)
    ELSE connect_input_spend(depth, block, view, index_in_parent, input,
             input_index, output_value,
             block.timestamp >= bip16_switchover_timestamp,
             [c EXCEPT !.asserted =
                 @ /\ (block.timestamp < bip16_switchover_timestamp
                       \/ depth >= bip16_switchover_depth)])

\* validate_block::connect_input once the previous output is read and its
\* signature operations are added to c.total_sigops.
connect_input_output(depth, block, view, index_in_parent, input, input_index, entry, output_value, c) ==
    IF c.total_sigops > max_block_script_sig_operations THEN reject_input(c)
    ELSE IF output_value > max_money THEN reject_input(c)
    ELSE IF is_coinbase(entry.tx)
            /\ (depth - entry.depth) % WordModulus < coinbase_maturity
         THEN reject_input(c)
    ELSE connect_input_spend(depth, block, view, index_in_parent, input,
             input_index, output_value,
             block.timestamp >= bip16_switchover_timestamp,
             [c EXCEPT !.asserted =
                 @ /\ (block.timestamp < bip16_switchover_timestamp
                       \/ depth >= bip16_switchover_depth)])

\* validate_block::connect_input once the previous transaction is fetched.
\* A read of previous_tx.outputs past its end is undefined: it yields the
\* output in view.wild_read, or faults (c.fault) when view.wild_read is empty.
connect_input_fetched(depth, block, view, index_in_parent, input, input_index, entry, c) ==
    IF input.previous_output.index >= Len(entry.tx.outputs)
    THEN IF view.wild_read = <<>>
         THEN [c EXCEPT !.ok = FALSE, !.fault = TRUE]
         ELSE connect_input_output(depth, block, view, index_in_parent, input,
                  input_index, entry, view.wild_read[1].value,
                  with_sigops(c,
                      (c.total_sigops + script_hash_signature_operations_count(
                           view.wild_read[1].output_script, input.input_script))
                        % WordModulus))
    ELSE connect_input_output(depth, block, view, index_in_parent, input,
             input_index, entry,
             entry.tx.outputs[input.previous_output.index + 1].value,
             with_sigops(c,
                 (c.total_sigops + script_hash_signature_operations_count(
                      entry.tx.outputs[input.previous_output.index + 1]
                          .output_script,
                      input.input_script))
                   % WordModulus))

\* validate_block::connect_input.  c carries value_in and total_sigops, which
\* the source passes by reference, with c.ok the value returned; c.peak is
\* the largest total_sigops seen, c.asserted whether the BIP16 assertion
\* held.
block_connect_input(depth, block, view, index_in_parent, current_tx, input_index, c) ==
    IF chain_entry(view.txs,
           current_tx.inputs[input_index + 1].previous_output.hash) = NoEntry
    THEN reject_input(c)
    ELSE connect_input_fetched(depth, block, view, index_in_parent,
             current_tx.inputs[input_index + 1], input_index,
             chain_entry(view.txs,
                 current_tx.inputs[input_index + 1].previous_output.hash),
             c)

RECURSIVE validate_inputs_from(_, _, _, _, _, _, _)
\* The loop of validate_inputs from input_index on; it stops at the first
\* input connect_input rejects.
validate_inputs_after(depth, block, view, index_in_parent, tx, input_index, c) ==
    IF ~c.ok THEN c
    ELSE validate_inputs_from(depth, block, view, index_in_parent, tx,
                              input_index + 1, c)

validate_inputs_from(depth, block, view, index_in_parent, tx, input_index, c) ==
    IF input_index >= Len(tx.inputs) THEN c
    ELSE validate_inputs_after(depth, block, view, index_in_parent, tx,
             input_index,
             block_connect_input(depth, block, view, index_in_parent, tx,
                                 input_index, c))

\* validate_block::validate_inputs
validate_inputs(depth, block, view, tx, index_in_parent, c) ==
    validate_inputs_from(depth, block, view, index_in_parent, tx, 0, c)

RECURSIVE connect_transactions(_, _, _, _, _)
\* connect_block's loop body after tally_fees; fee is what tally_fees
\* returned and left in fees.
connect_tallied(depth, block, view, tx_index, r, value_in, fee) ==
    IF ~fee.ok
    THEN [r EXCEPT !.ec = "fees_out_of_range", !.fees = fee.total_fees]
    ELSE connect_transactions(depth, block, view, tx_index + 1,
             [r EXCEPT !.fees = fee.total_fees,
                       !.value_ins = Append(@, value_in)])

\* connect_block's loop body after validate_inputs; c is the state
\* validate_inputs left.
connect_validated(depth, block, view, tx_index, r, c) ==
    IF ~c.ok
    THEN [r EXCEPT !.ec = "validate_inputs_failed",
                   !.total_sigops = c.total_sigops, !.peak = c.peak,
                   !.fault = c.fault, !.asserted = c.asserted]
    ELSE connect_tallied(depth, block, view, tx_index,
             [r EXCEPT !.total_sigops = c.total_sigops, !.peak = c.peak,
                       !.fault = c.fault, !.asserted = c.asserted],
             c.value_in,
             tally_fees(block.transactions[tx_index + 1], c.value_in, r.fees))

\* connect_block's loop body after the legacy count of the transaction is
\* added to total_sigops.
connect_counted(depth, block, view, tx_index, r) ==
    IF r.total_sigops > max_block_script_sig_operations
    THEN [r EXCEPT !.ec = "too_many_sigs"]
    ELSE connect_validated(depth, block, view, tx_index, r,
             validate_inputs(depth, block, view,
                 block.transactions[tx_index + 1], tx_index,
                 [ok |-> TRUE, value_in |-> 0,
                  total_sigops |-> r.total_sigops, peak |-> r.peak,
                  fault |-> FALSE, asserted |-> r.asserted]))

\* The loop of connect_block over the transactions from tx_index on; r
\* carries fees and total_sigops, r.ec the error that ended the loop and
\* r.value_ins the value_in of each transaction connected.
connect_transactions(depth, block, view, tx_index, r) ==
    IF tx_index >= Len(block.transactions) THEN r
    ELSE connect_counted(depth, block, view, tx_index,
             with_sigops(r,
                 (r.total_sigops
                    + tx_legacy_sigops_count(block.transactions[tx_index + 1]))
                   % WordModulus))

\* connect_block comparing the coinbase value with the subsidy before any
\* halving.
connect_coinbase_no_halving(depth, block, r) ==
    IF r.ec # "ok" THEN r
    ELSE IF total_output_value(block.transactions[1])
              > (block_value(0) + r.fees) % WordModulus
         THEN [r EXCEPT !.ec = "coinbase_too_large"]
    ELSE r

\* connect_block after its loop: the coinbase value against the subsidy
\* and the fees.
connect_coinbase(depth, block, r) ==
    IF r.ec # "ok" THEN r
    ELSE IF total_output_value(block.transactions[1])
              > (block_value(depth) + r.fees) % WordModulus
         THEN [r EXCEPT !.ec = "coinbase_too_large"]
    ELSE r

\* connect_block with no depth exempted from the search for duplicates.
connect_block_no_exemption(depth, block, view) ==
    IF \E i \in 1..Len(block.transactions) :
           ~not_duplicate_or_spent(view, block.transactions[i])
    THEN [NotConnected EXCEPT !.ec = "duplicate_or_spent"]
    ELSE connect_coinbase(depth, block,
             connect_transactions(depth, block, view, 1,
                                  [NotConnected EXCEPT !.ec = "ok"]))

\* validate_block::connect_block
connect_block(depth, block, view) ==
    IF depth # 91842 /\ depth # 91880
       /\ \E i \in 1..Len(block.transactions) :
              ~not_duplicate_or_spent(view, block.transactions[i])
    THEN [NotConnected EXCEPT !.ec = "duplicate_or_spent"]
    ELSE connect_coinbase(depth, block,
             connect_transactions(depth, block, view, 1,
                                  [NotConnected EXCEPT !.ec = "ok"]))

\* validate_block::start after connect_block; start does not return when
\* connect_input faulted.
started_connect(connected) ==
    [check |-> "ok", accept |-> "ok", connect |-> connected,
     ec |-> IF connected.fault THEN "fault" ELSE connected.ec]

\* start going on to connect_block whatever accept_block returned.
block_start_skip_accept(depth, block, view) ==
    IF check_block(block, view.now) # "ok"
    THEN [check |-> check_block(block, view.now), accept |-> "not_run",
          connect |-> NotConnected, ec |-> check_block(block, view.now)]
    ELSE started_connect(connect_block(depth, block, view))

\* validate_block::start: the error code returned, with the result of each
\* phase that ran ("not_run" for one that did not).
block_start(depth, block, view) ==
    IF check_block(block, view.now) # "ok"
    THEN [check |-> check_block(block, view.now), accept |-> "not_run",
          connect |-> NotConnected, ec |-> check_block(block, view.now)]
    ELSE IF accept_block(depth, block, view) # "ok"
         THEN [check |-> "ok", accept |-> accept_block(depth, block, view),
               connect |-> NotConnected,
               ec |-> accept_block(depth, block, view)]
    ELSE started_connect(connect_block(depth, block, view))

----------------------------------------------------------------------------
(* The blocks and chain views of the model. *)

\* The longest list of transactions after the first one in the blocks whose
\* transactions vary.
MaxBlockSpends == 2

P2Multisig == Script(2, "other", <<Op("op_2", 1), Op("checkmultisig", 1)>>)

ManySigs(n) == Script(2, "other", <<Op("checkmultisig", n)>>)

Coinbase(h, value) == Tx(h, <<Input(NullOutPoint, PlainScript)>>, <<Pay(value)>>)

\* Confirmed transactions of the chain view: "a" with two outputs, the
\* coinbase "m", and a transaction with the hash of the block's "s1".
ChainA == Tx("a", <<Spend("g", 0)>>, <<Output(10, P2Multisig), Pay(6)>>)

ChainM == Coinbase("m", 50 * Coin)

SpendA0 == Tx("s1", <<Spend("a", 0)>>, <<Pay(8)>>)

Confirmed(tx, depth) == [hash |-> tx.hash, tx |-> tx, depth |-> depth]

\* Coinbases of the block: 25, 26 and 50 coins, and 50 coins plus a fee of
\* 2 and of 3.
FirstChoices ==
    { Coinbase("cb25", 25 * Coin), Coinbase("cb26", 26 * Coin),
      Coinbase("cb50", 50 * Coin), Coinbase("cb50_2", 50 * Coin + 2),
      Coinbase("cb50_3", 50 * Coin + 3), SpendA0 }

\* The other transactions of the block: s1 and s1b spend a:0 with a fee of 2
\* and 1, s2 pays more than it spends, s3 spends an unknown transaction, s4
\* an output that a does not have, s5 carries 20000 legacy sigops, s7
\* spends the coinbase m.
SpendChoices ==
    { SpendA0,
      Tx("s1b", <<Spend("a", 0)>>, <<Pay(9)>>),
      Tx("s2", <<Spend("a", 1)>>, <<Pay(7)>>),
      Tx("s3", <<Spend("z", 0)>>, <<Pay(1)>>),
      Tx("s4", <<Spend("a", 2)>>, <<Pay(1)>>),
      Tx("s5", <<Spend("a", 1)>>, <<Output(1, ManySigs(1000))>>),
      Tx("s7", <<Spend("m", 0)>>, <<Pay(1)>>) }

BlockLists ==
    { <<first>> \o rest : first \in FirstChoices,
                          rest \in SeqsUpTo(SpendChoices, MaxBlockSpends) }

LowHash == [i \in 1..32 |-> IF i <= 4 THEN 0 ELSE 1]

HighHash == [i \in 1..32 |-> 255]

CheckpointDepths == { Checkpoints[k].depth : k \in 1..Len(Checkpoints) }

CheckpointHashes == { Checkpoints[k].hash : k \in 1..Len(Checkpoints) }

\* A hash that passes the checkpoints at this depth.
GoodHash(depth) ==
    IF depth \in CheckpointDepths
    THEN (CHOOSE cp \in { Checkpoints[k] : k \in 1..Len(Checkpoints) } :
              cp.depth = depth).hash
    ELSE LowHash

\* max_target / 4 in compact form (0x1c3fffc0).
QuarterBits == compact(big_div(max_target, 4))

EarlyTime == bip16_switchover_timestamp - 30000000

LateTime == bip16_switchover_timestamp + 20000000

ClockNow == LateTime + 10000000

Block(bits, timestamp, hash, merkle, raw_size, transactions) ==
    [bits |-> bits, timestamp |-> timestamp, hash |-> hash, merkle |-> merkle,
     raw_size |-> raw_size, transactions |-> transactions]

\* A block whose header passes every check at a depth that is no multiple
\* of readjustment_interval.
GoodBlock(depth, transactions) ==
    Block(max_bits, EarlyTime, GoodHash(depth),
          generate_merkle_root(transactions), 1000, transactions)

BaseView ==
    [now |-> ClockNow, previous_block_bits |-> max_bits,
     actual_timespan |-> target_timespan, median_time_past |-> EarlyTime - 1,
     txs |-> <<Confirmed(ChainA, 5), Confirmed(ChainM, 0)>>,
     spent |-> {}, run_fails |-> {}, wild_read |-> <<Pay(1)>>]

\* The chain views of the blocks whose transactions vary: a:0 spent, its
\* script failing, the read past the outputs faulting or yielding a huge
\* value, and s1 confirmed before with its output unspent.
ViewChoices ==
    { BaseView,
      [BaseView EXCEPT !.spent = {OutPoint("a", 0)}],
      [BaseView EXCEPT !.run_fails = {OutPoint("a", 0)}],
      [BaseView EXCEPT !.wild_read = <<>>],
      [BaseView EXCEPT !.wild_read = <<Output(max_money + 1, ManySigs(1))>>],
      [BaseView EXCEPT !.txs = @ \o <<Confirmed(SpendA0, 7)>>] }

Scenario(depth, block, view) == [depth |-> depth, block |-> block, view |-> view]

\* Blocks that differ in their transactions, at a depth before the first
\* halving, at an exempted depth and at the checkpoint of the first halving.
SpendScenarios ==
    { Scenario(depth, GoodBlock(depth, list), view) :
        depth \in {101, 91842, 210000}, list \in BlockLists, view \in ViewChoices }

\* Blocks that differ in depth, hash and bits, with a retarget seen by the
\* chain view.
HeaderScenarios ==
    { Scenario(depth,
               [GoodBlock(depth, <<Coinbase("cb25", 25 * Coin)>>)
                    EXCEPT !.hash = hash, !.bits = bits],
               [BaseView EXCEPT !.previous_block_bits = previous_bits,
                                !.actual_timespan = actual]) :
        depth \in {0, 1, 2016} \cup CheckpointDepths,
        hash \in {LowHash, HighHash} \cup CheckpointHashes,
        bits \in {max_bits, QuarterBits},
        previous_bits \in {max_bits, QuarterBits},
        actual \in {target_timespan \div 8, target_timespan, target_timespan * 8} }

LockedCoinbase ==
    [Tx("cbl", <<[Input(NullOutPoint, PlainScript) EXCEPT !.sequence = 0]>>,
        <<Pay(25 * Coin)>>) EXCEPT !.lock_time = 200000]

\* Blocks that differ in timestamp, size, merkle root and in what is wrong
\* with their transactions.
ContentScenarios ==
    { Scenario(depth,
               [GoodBlock(depth, list) EXCEPT
                    !.timestamp = timestamp, !.raw_size = raw_size,
                    !.merkle = IF merkle_ok THEN @ ELSE NullMerkle],
               [BaseView EXCEPT !.median_time_past = median]) :
        depth \in {1, 101, bip16_switchover_depth},
        list \in { <<>>, <<Coinbase("cb25", 25 * Coin)>>, <<LockedCoinbase>>,
                   <<Coinbase("cb25", 25 * Coin), Coinbase("cb26", 26 * Coin)>>,
                   <<Coinbase("cb25", 25 * Coin), SpendA0, SpendA0>>,
                   <<Coinbase("cb25", 25 * Coin),
                     Tx("s6", <<Spend("a", 1)>>, <<Output(1, ManySigs(1001))>>)>>,
                   <<Tx("cb1", <<Input(NullOutPoint, Script(1, "other", <<>>))>>,
                        <<Pay(1)>>)>>,
                   <<Coinbase("cb25", 25 * Coin), SpendA0>> },
        timestamp \in {EarlyTime, LateTime, ClockNow + 7200, ClockNow + 7201},
        raw_size \in {max_block_size, max_block_size + 1},
        merkle_ok \in BOOLEAN,
        median \in {EarlyTime - 1, LateTime} }

\* Blocks around the two exempted depths whose transactions have, or have
\* not, the hash of a confirmed transaction, with its output spent or not.
DuplicateScenarios ==
    { Scenario(depth, GoodBlock(depth, list),
               [BaseView EXCEPT !.txs = @ \o confirmed, !.spent = spent]) :
        depth \in {91841, 91842, 91880, 91881},
        list \in { <<Coinbase("cb25", 25 * Coin)>>,
                   <<Coinbase("cb25", 25 * Coin), SpendA0>> },
        confirmed \in { <<Confirmed(SpendA0, 7)>>,
                        <<Confirmed(Coinbase("cb25", 25 * Coin), 3)>>,
                        <<Confirmed(Tx("s9", <<Spend("g", 1)>>, <<Pay(1)>>), 7)>> },
        spent \in { {}, {OutPoint("s1", 0)}, {OutPoint("cb25", 0)} } }

\* Transactions that check_transaction refuses: one without outputs, one
\* paying more than max_money, one with a null outpoint among two inputs.
NoOutputs == Tx("e1", <<Spend("a", 1)>>, <<>>)

Overpaying == Tx("e2", <<Spend("a", 1)>>, <<Pay(max_money + 1)>>)

NullSpend == Tx("e3", <<Spend("a", 1), Input(NullOutPoint, PlainScript)>>, <<Pay(1)>>)

SigsHeavy == Tx("s6", <<Spend("a", 1)>>, <<Output(1, ManySigs(1001))>>)

\* Blocks in which several of the tests of check_block fail at once.
CheckScenarios ==
    { Scenario(1,
               [GoodBlock(1, list) EXCEPT
                    !.hash = hash, !.timestamp = timestamp,
                    !.raw_size = raw_size,
                    !.merkle = IF merkle_ok THEN @ ELSE NullMerkle],
               BaseView) :
        list \in { <<>>, <<SpendA0>>, <<SpendA0, Coinbase("cb25", 25 * Coin)>>,
                   <<NoOutputs, Coinbase("cb25", 25 * Coin)>>,
                   <<Coinbase("cb25", 25 * Coin), Coinbase("cb26", 26 * Coin),
                     NoOutputs>>,
                   <<Coinbase("cb25", 25 * Coin), NoOutputs, Overpaying>>,
                   <<Coinbase("cb25", 25 * Coin), Overpaying, NoOutputs>>,
                   <<Coinbase("cb25", 25 * Coin), SpendA0, NullSpend>>,
                   <<Coinbase("cb25", 25 * Coin), NullSpend, NullSpend>>,
                   <<Coinbase("cb25", 25 * Coin), SigsHeavy, SigsHeavy>>,
                   <<Coinbase("cb25", 25 * Coin), SigsHeavy>>,
                   <<Coinbase("cb25", 25 * Coin), SpendA0>> },
        hash \in {LowHash, HighHash},
        timestamp \in {EarlyTime, ClockNow + 7201},
        raw_size \in {max_block_size, max_block_size + 1},
        merkle_ok \in BOOLEAN }

BlockScenarios ==
    SpendScenarios \cup HeaderScenarios \cup ContentScenarios
        \cup DuplicateScenarios \cup CheckScenarios

InitBlock ==
    /\ \E sc \in BlockScenarios :
          /\ depth_ = sc.depth
          /\ current_block_ = sc.block
          /\ view_ = sc.view
    /\ result = NotStarted
    /\ tx_ = NoTx
    /\ pool_ = <<>>
    /\ started = FALSE
    /\ vt = InitValidator
    /\ call = NoCall
    /\ ret = <<>>
    /\ buffer = NoBuffer

\* validate_block::start
ValidateBlock ==
    /\ result.ec = "not_run"
    /\ result' = block_start(depth_, current_block_, view_)
    /\ UNCHANGED <<depth_, current_block_, view_, txvars, unitvars>>

NextBlock == ValidateBlock

SpecBlock == InitBlock /\ [][NextBlock]_vars

----------------------------------------------------------------------------
(* The functions of validate.cpp that need no validator, applied on their  *)
(* own to arguments of their domain.                                       *)

\* The digest of the number with these bytes, the most significant first.
HashOf(bytes) == Zeros(32 - Len(bytes)) \o bytes

\* The digest of max_target, and of max_target + 1.
MaxTargetHash == HashOf(<<255, 255>> \o Zeros(26))

AboveMaxTargetHash == HashOf(<<255, 255>> \o Zeros(25) \o <<1>>)

\* Digests: 0, 5, 6, max_target / 4 and its neighbours, max_target and its
\* successor, and the model's low and high digests.
PowHashes ==
    { HashOf(<<>>), HashOf(<<5>>), HashOf(<<6>>), HashOf(<<1, 0>>),
      HashOf(<<63, 255, 192>> \o Zeros(25)),
      HashOf(<<63, 255, 192>> \o Zeros(24) \o <<1>>),
      MaxTargetHash, AboveMaxTargetHash, LowHash, HighHash }

\* Compact values: of zero (in four encodings), of 5 and of -5, of 5 and
\* of 0x12 in short encodings, of -0x7fffff, of max_target and of
\* max_target / 4, of numbers above max_target, and of a negative number
\* with the magnitude of max_target.
PowBits ==
    { 0, 50331648, 8388608, 75497472,
      50331653, 58720261, 33555712, 17956864, 67108863,
      max_bits, QuarterBits, max_bits - 1,
      max_bits + 1, 486604800 + 65536, 503382015,
      max_bits + 8388608 }

PowCalls ==
    { [fn |-> "check_proof_of_work", block_hash |-> h, bits |-> b] :
        h \in PowHashes, b \in PowBits }

\* Transactions with no input, one input and a coinbase input, and with up
\* to two outputs whose values lie around 0, max_money and the word size.
CheckTransactionCalls ==
    { [fn |-> "check_transaction", tx |-> Tx("t", ins, outs)] :
        ins \in { <<>>, <<Spend("a", 0)>>, <<Input(NullOutPoint, PlainScript)>> },
        outs \in SeqsUpTo({ Pay(v) : v \in { 0, 1, max_money - 1, max_money,
                                              max_money + 1,
                                              WordModulus - max_money,
                                              WordModulus - 2 } }, 2) }

\* connect_input of the mempool path on an input spending output 0 of a
\* coinbase or of another transaction, for depths the two oracle replies
\* can carry, the parent's also above the last block's.
ConnectInputCalls ==
    { [fn |-> "connect_input", tx |-> Tx("t", <<Spend(p.hash, 0)>>, <<Pay(1)>>),
       current_input |-> 0, previous_tx |-> p, parent_depth |-> pd,
       last_block_depth |-> ld, value_in |-> 0, run_ok |-> ok] :
        p \in ChainTxs, pd \in {0, 20, 21, 50, 51, 121, 151, 1000},
        ld \in {0, 99, 100} \cup LastDepths, ok \in BOOLEAN }

\* Scripts of up to three operations: numbers, signature checks and an
\* operation that is neither.
SigopsCalls ==
    { [fn |-> "count_script_sigops", operations |-> ops, accurate |-> acc] :
        ops \in SeqsUpTo({ Op(code, 1) :
                             code \in { "op_1", "op_3", "op_16", "checksig",
                                        "checksigverify", "checkmultisig",
                                        "checkmultisigverify", "nop" } }, 3),
        acc \in BOOLEAN }

\* Compact targets of 1, 100, 443 and -1, beside zero, max_target and a
\* quarter of it.
RetargetBits ==
    { 0, 16777216 + 65536, 16777216 + 100 * 65536,
      2 * 16777216 + 65536 + 187 * 256, 16777216 + 129 * 65536,
      max_bits, QuarterBits }

\* work_required at heights that are and are not multiples of
\* readjustment_interval, for timespans inside and outside the clamp.
WorkRequiredCalls ==
    { [fn |-> "work_required", depth |-> d, previous_bits |-> b, actual |-> a] :
        d \in {0, 1, readjustment_interval - 1, readjustment_interval,
               readjustment_interval + 1, 2 * readjustment_interval},
        b \in RetargetBits,
        a \in {0, 1, target_timespan \div 8, target_timespan \div 4 - 1,
               target_timespan \div 4, target_timespan \div 4 + 1,
               target_timespan \div 2, target_timespan - 1, target_timespan,
               target_timespan + 1, target_timespan * 2, target_timespan * 4 - 1,
               target_timespan * 4, target_timespan * 4 + 1,
               target_timespan * 8, target_timespan * 1000} }

UnitCalls ==
    PowCalls \cup CheckTransactionCalls \cup ConnectInputCalls \cup SigopsCalls
        \cup WorkRequiredCalls

InitUnit ==
    /\ call \in UnitCalls
    /\ ret = <<>>
    /\ buffer = NoBuffer
    /\ tx_ = NoTx
    /\ pool_ = <<>>
    /\ started = FALSE
    /\ vt = InitValidator
    /\ depth_ = 0
    /\ current_block_ = NoBlock
    /\ view_ = NoView
    /\ result = NotStarted

\* validate_block::check_proof_of_work
CheckProofOfWork ==
    /\ call.fn = "check_proof_of_work"
    /\ ret = <<>>
    /\ ret' = <<check_proof_of_work(call.block_hash, call.bits)>>
    /\ UNCHANGED <<call, buffer, txvars, blockvars>>

\* validate_transaction::check_transaction
CheckTransaction ==
    /\ call.fn = "check_transaction"
    /\ ret = <<>>
    /\ ret' = <<check_transaction(call.tx)>>
    /\ UNCHANGED <<call, buffer, txvars, blockvars>>

\* validate_transaction::connect_input
ConnectInput ==
    /\ call.fn = "connect_input"
    /\ ret = <<>>
    /\ ret' = <<connect_input(call.tx, call.current_input, call.previous_tx,
                              call.parent_depth, call.last_block_depth,
                              call.value_in, call.run_ok)>>
    /\ UNCHANGED <<call, buffer, txvars, blockvars>>

\* count_script_sigops
CountScriptSigops ==
    /\ call.fn = "count_script_sigops"
    /\ ret = <<>>
    /\ ret' = <<count_script_sigops(call.operations, call.accurate)>>
    /\ UNCHANGED <<call, buffer, txvars, blockvars>>

\* validate_block::work_required on a chain view that answers
\* previous_block_bits() and actual_timespan().
WorkRequired ==
    /\ call.fn = "work_required"
    /\ ret = <<>>
    /\ ret' = <<work_required(call.depth,
                    [previous_block_bits |-> call.previous_bits,
                     actual_timespan |-> call.actual])>>
    /\ UNCHANGED <<call, buffer, txvars, blockvars>>

NextUnit ==
    \/ CheckProofOfWork
    \/ CheckTransaction
    \/ ConnectInput
    \/ CountScriptSigops
    \/ WorkRequired

SpecUnit == InitUnit /\ [][NextUnit]_vars

----------------------------------------------------------------------------
(* pumpkin_buffer (src/include/bitcoin/session.hpp) *)

\* The most store calls of a run.
MaxStores == 4

\* The largest max_size of the buffers.
MaxSize == 3

Items == {"a", "b", "c"}

\* pumpkin_buffer::store from the erase on, expiry_[pointer_] being an
\* element of expiry_.
store_overwrite(b, item, ndebug) ==
    IF b.expiry_[b.pointer_ + 1] \notin b.lookup_ /\ ~ndebug
    THEN [b EXCEPT !.aborted = TRUE, !.failed = "number_erased == 1",
                   !.stored = Append(@, item)]
    ELSE [b EXCEPT !.lookup_ = (@ \ {b.expiry_[b.pointer_ + 1]}) \cup {item},
                   !.expiry_[b.pointer_ + 1] = item,
                   !.pointer_ = IF @ + 1 = Len(b.expiry_) THEN 0 ELSE @ + 1,
                   !.failed = IF b.expiry_[b.pointer_ + 1] \notin b.lookup_
                              THEN "number_erased == 1" ELSE @,
                   !.stored = Append(@, item)]

\* pumpkin_buffer::store with pointer_ outside expiry_.  A build with
\* assertions stops; in one without them the read and the write of
\* expiry_[pointer_] are undefined: the program ends (wild = "fault") or the
\* read yields the item wild, the write lands outside the vector, and
\* pointer_ moves on.
store_outside(b, item, ndebug, wild) ==
    IF ~ndebug
    THEN [b EXCEPT !.aborted = TRUE, !.failed = "pointer_ < expiry_.size()",
                   !.stored = Append(@, item)]
    ELSE IF wild = "fault"
         THEN [b EXCEPT !.fault = TRUE, !.failed = "pointer_ < expiry_.size()",
                        !.stored = Append(@, item)]
    ELSE [b EXCEPT !.lookup_ = (@ \ {wild}) \cup {item},
                   !.pointer_ = IF @ + 1 = Len(b.expiry_) THEN 0 ELSE @ + 1,
                   !.failed = "pointer_ < expiry_.size()",
                   !.stored = Append(@, item)]

\* pumpkin_buffer::store.  A BITCOIN_ASSERT that fails stops a build with
\* assertions; a build without them (ndebug) goes on.
store(b, item, ndebug, wild) ==
    IF Len(b.expiry_) < b.max_size_
    THEN [b EXCEPT !.lookup_ = @ \cup {item},
                   !.expiry_ = Append(@, item),
                   !.stored = Append(@, item)]
    ELSE IF b.pointer_ >= Len(b.expiry_)
         THEN store_outside(b, item, ndebug, wild)
    ELSE store_overwrite(b, item, ndebug)

\* pumpkin_buffer::exists
exists(b, item) == item \in b.lookup_

InitBuffer ==
    /\ \E max_size \in 0..MaxSize : buffer = pumpkin_buffer(max_size)
    /\ call = NoCall
    /\ ret = <<>>
    /\ tx_ = NoTx
    /\ pool_ = <<>>
    /\ started = FALSE
    /\ vt = InitValidator
    /\ depth_ = 0
    /\ current_block_ = NoBlock
    /\ view_ = NoView
    /\ result = NotStarted

Store ==
    /\ ~buffer.aborted
    /\ ~buffer.fault
    /\ Len(buffer.stored) < MaxStores
    /\ \E item \in Items, ndebug \in BOOLEAN, wild \in Items \cup {"fault"} :
           buffer' = store(buffer, item, ndebug, wild)
    /\ UNCHANGED <<call, ret, txvars, blockvars>>

NextBuffer == Store

SpecBuffer == InitBuffer /\ [][NextBuffer]_vars

\* The last max_size_ items given to store.
LastStored ==
    { buffer.stored[k] :
        k \in { j \in 1..Len(buffer.stored) :
                  j > Len(buffer.stored) - buffer.max_size_ } }

\* C14: exists(x) is true exactly for the last max_size items stored, also
\* when items repeat.
C14_ExistsLastStored ==
    ~buffer.aborted /\ ~buffer.fault => \A x \in Items : exists(buffer, x) <=> x \in LastStored

\* C14 for runs of a buffer with room in which no item is stored twice.
C14_DistinctItems ==
    /\ ~buffer.aborted
    /\ buffer.max_size_ > 0
    /\ \A i, j \in 1..Len(buffer.stored) :
           i # j => buffer.stored[i] # buffer.stored[j]
    => \A x \in Items : exists(buffer, x) <=> x \in LastStored

\* The items of expiry_.
Expiring == { buffer.expiry_[k] : k \in 1..Len(buffer.expiry_) }

\* C24: whatever is stored, in a buffer of any max_size, the assertions of
\* store hold (expiry_.size() == max_size_ and pointer_ < expiry_.size()
\* when the buffer is full, number_erased == 1), lookup_ is the set of the
\* items of expiry_, and expiry_ has at most max_size_ items.
C24_StoreAssertions ==
    /\ buffer.failed = "none"
    /\ buffer.lookup_ = Expiring
    /\ Len(buffer.expiry_) <= buffer.max_size_

\* C24 for a buffer with room and runs in which no item is stored twice.
C24_DistinctItems ==
    /\ buffer.max_size_ > 0
    /\ \A i, j \in 1..Len(buffer.stored) :
           i # j => buffer.stored[i] # buffer.stored[j]
    => C24_StoreAssertions

\* expiry_ never has more than max_size_ items, and pointer_ is inside it
\* in a buffer with room.
C24_SizeBounded ==
    /\ Len(buffer.expiry_) <= buffer.max_size_
    /\ buffer.max_size_ > 0 => buffer.pointer_ < buffer.max_size_

\* An item stored twice in a buffer of two: the fourth store erases
\* nothing from lookup_.
C24_ErasedTwice ==
    /\ buffer.max_size_ = 2
    /\ buffer.stored = <<"a", "a", "b", "c">>
    /\ buffer.failed = "number_erased == 1"

\* A full buffer of distinct items that has overwritten its oldest one.
C24_Overwritten ==
    /\ buffer.max_size_ = 2
    /\ buffer.stored = <<"a", "b", "c">>
    /\ buffer.expiry_ = <<"c", "b">>
    /\ buffer.failed = "none"

----------------------------------------------------------------------------
(* Claims about validate_block. *)

\* start() has returned an error code.
Returned == result.ec \notin {"not_run", "fault"}

\* C6: start returns OK exactly when check_block, accept_block and
\* connect_block all return OK; otherwise it returns the error of the first
\* phase that fails, and the phases after that one are not run.
C6_FirstErrorReturned ==
    Returned =>
        /\ result.ec = "ok" <=>
               /\ check_block(current_block_, view_.now) = "ok"
               /\ accept_block(depth_, current_block_, view_) = "ok"
               /\ connect_block(depth_, current_block_, view_).ec = "ok"
        /\ check_block(current_block_, view_.now) # "ok" =>
               /\ result.ec = check_block(current_block_, view_.now)
               /\ result.accept = "not_run"
               /\ result.connect = NotConnected
        /\ /\ check_block(current_block_, view_.now) = "ok"
           /\ accept_block(depth_, current_block_, view_) # "ok"
           => /\ result.ec = accept_block(depth_, current_block_, view_)
              /\ result.connect = NotConnected
        /\ /\ check_block(current_block_, view_.now) = "ok"
           /\ accept_block(depth_, current_block_, view_) = "ok"
           => result.ec = connect_block(depth_, current_block_, view_).ec

\* An accept_block error returned after check_block passed.
C6_Witness ==
    /\ result.ec = "timestamp_too_early"
    /\ result.check = "ok"
    /\ result.connect = NotConnected

\* The tests of check_block in the order of the claim, each with the error
\* it stands for and whether the block fails it.
CheckOrder(block, now) ==
    LET txs == block.transactions IN
    << [ec |-> "size_limits",
        fails |-> \/ txs = <<>>
                  \/ Len(txs) > max_block_size
                  \/ block.raw_size > max_block_size],
       [ec |-> "proof_of_work",
        fails |-> ~check_proof_of_work(block.hash, block.bits)],
       [ec |-> "futuristic_timestamp", fails |-> block.timestamp > now + 7200],
       [ec |-> "first_not_coinbase",
        fails |-> txs # <<>> /\ ~is_coinbase(txs[1])],
       [ec |-> "extra_coinbases",
        fails |-> \E i \in 2..Len(txs) : is_coinbase(txs[i])],
       [ec |-> IF \E i \in 1..Len(txs) : check_transaction(txs[i]) # "ok"
               THEN check_transaction(
                        txs[CHOOSE i \in 1..Len(txs) :
                               /\ check_transaction(txs[i]) # "ok"
                               /\ \A j \in 1..(i - 1) :
                                      check_transaction(txs[j]) = "ok"])
               ELSE "ok",
        fails |-> \E i \in 1..Len(txs) : check_transaction(txs[i]) # "ok"],
       [ec |-> "duplicate",
        fails |-> \E i, j \in 1..Len(txs) : i # j /\ txs[i].hash = txs[j].hash],
       [ec |-> "too_many_sigs",
        fails |-> legacy_sigops_count(block) > max_block_script_sig_operations],
       [ec |-> "merkle_mismatch",
        fails |-> block.merkle # generate_merkle_root(txs)] >>

FirstFailure(order) ==
    IF \A k \in 1..Len(order) : ~order[k].fails THEN "ok"
    ELSE order[CHOOSE k \in 1..Len(order) :
                   /\ order[k].fails
                   /\ \A j \in 1..(k - 1) : ~order[j].fails].ec

\* C20: check_block returns the error of the first failing test in the
\* order size_limits, proof_of_work, futuristic_timestamp,
\* first_not_coinbase, extra_coinbases, the check_transaction error of the
\* first offending transaction, duplicate, too_many_sigs, merkle_mismatch,
\* and OK only when none fails; a block it accepts has exactly one coinbase,
\* its first transaction, and pairwise distinct transaction hashes.
C20_CheckOrder ==
    result.check # "not_run" =>
        /\ result.check = FirstFailure(CheckOrder(current_block_, view_.now))
        /\ result.check = "ok" =>
               /\ current_block_.transactions # <<>>
               /\ \A i \in 1..Len(current_block_.transactions) :
                      is_coinbase(current_block_.transactions[i]) <=> i = 1
               /\ \A i, j \in 1..Len(current_block_.transactions) :
                      i # j => current_block_.transactions[i].hash
                                   # current_block_.transactions[j].hash

\* A block that is too large, with too little work and a timestamp in the
\* future, refused for its size.
C20_Witness ==
    /\ result.check = "size_limits"
    /\ current_block_.transactions # <<>>
    /\ current_block_.hash = HighHash
    /\ current_block_.timestamp > view_.now + 7200

\* The second of two refused transactions does not decide the error.
C20_FirstOffender ==
    /\ result.check = "empty_transaction"
    /\ Len(current_block_.transactions) = 3
    /\ check_transaction(current_block_.transactions[3]) = "output_value_overflow"

\* A block accepted by check_block with two transactions.
C20_Accepted ==
    /\ result.check = "ok"
    /\ Len(current_block_.transactions) = 2

\* C7: a block for which start returns OK at depth h has h = 0 or bits
\* equal to work_required(): the previous block's bits when h is no multiple
\* of 2016, the retargeted compact value when it is.
C7_BitsAreWorkRequired ==
    result.ec = "ok" =>
        \/ depth_ = 0
        \/ /\ current_block_.bits = work_required(depth_, view_)
           /\ depth_ % 2016 # 0 =>
                  current_block_.bits = view_.previous_block_bits

\* A block accepted at a retarget depth with bits a quarter of the previous
\* block's target.
C7_Witness ==
    /\ result.ec = "ok"
    /\ depth_ = 2016
    /\ view_.previous_block_bits = max_bits
    /\ current_block_.bits = QuarterBits

\* C8: a block for which start returns OK has at most 20000 legacy
\* signature operations, and the running total of connect_block never
\* exceeded 20000.
C8_SigopsLimited ==
    result.ec = "ok" =>
        /\ legacy_sigops_count(current_block_) <= 20000
        /\ result.connect.peak <= 20000

\* A block accepted with exactly 20000 signature operations.
C8_Witness ==
    /\ result.ec = "ok"
    /\ legacy_sigops_count(current_block_) = 20000
    /\ result.connect.peak = 20000

\* The value of the output an input of the block spends, as connect_input
\* reads it.
spent_output_value(view, input) ==
    IF input.previous_output.index
         < Len(chain_entry(view.txs, input.previous_output.hash).tx.outputs)
    THEN chain_entry(view.txs, input.previous_output.hash)
             .tx.outputs[input.previous_output.index + 1].value
    ELSE view.wild_read[1].value

RECURSIVE inputs_value(_, _)
inputs_value(view, inputs) ==
    IF inputs = <<>> THEN 0
    ELSE spent_output_value(view, Head(inputs)) + inputs_value(view, Tail(inputs))

RECURSIVE fees_of(_, _)
\* The sum of value_in - value_out over the transactions.
fees_of(view, transactions) ==
    IF transactions = <<>> THEN 0
    ELSE inputs_value(view, Head(transactions).inputs)
           - total_output_value(Head(transactions))
           + fees_of(view, Tail(transactions))

\* C9: when connect_block returns OK at depth h the coinbase pays at most
\* block_value(h) plus the fees of the other transactions; a coinbase of 26
\* coins alone in a block at depth 210000 is rejected with
\* coinbase_too_large.
C9_CoinbaseBounded ==
    /\ result.connect.ec = "ok" =>
           total_output_value(current_block_.transactions[1])
             <= (50 * Coin) \div (2 ^ (depth_ \div 210000))
                  + fees_of(view_, Tail(current_block_.transactions))
    /\ /\ result.accept = "ok"
       /\ depth_ = 210000
       /\ Len(current_block_.transactions) = 1
       /\ total_output_value(current_block_.transactions[1]) = 26 * Coin
       => result.ec = "coinbase_too_large"

\* A block connected at depth 210000 whose coinbase pays the subsidy and
\* all of the fees.
C9_Witness ==
    /\ result.connect.ec = "ok"
    /\ depth_ = 210000
    /\ Len(current_block_.transactions) > 1
    /\ total_output_value(current_block_.transactions[1])
         = 25 * Coin + fees_of(view_, Tail(current_block_.transactions))

\* The depths of the checkpoint table.
CheckpointHeights ==
    { 11111, 33333, 68555, 70567, 74000, 105000, 118000, 134444, 140700,
      168000, 193000, 210000, 216116 }

\* C10: at a depth of the checkpoint table accept_block returns OK only for
\* the table's hash, and checkpoints_failed for another hash when its
\* earlier checks pass; at any other depth passes_checkpoints holds for
\* every hash.
C10_Checkpoints ==
    /\ result.accept = "ok" /\ depth_ \in CheckpointHeights =>
           /\ depth_ \in CheckpointDepths
           /\ current_block_.hash = GoodHash(depth_)
    /\ /\ result.accept # "not_run"
       /\ depth_ \in CheckpointHeights
       /\ current_block_.hash # GoodHash(depth_)
       /\ current_block_.bits = work_required(depth_, view_)
       /\ current_block_.timestamp > view_.median_time_past
       /\ \A i \in 1..Len(current_block_.transactions) :
              is_final(current_block_.transactions[i], depth_,
                       current_block_.timestamp)
       => result.accept = "checkpoints_failed"
    /\ depth_ \notin CheckpointHeights =>
           \A block_hash \in {LowHash, HighHash, current_block_.hash}
                               \cup CheckpointHashes :
               passes_checkpoints(depth_, block_hash)

\* A block accepted at a checkpoint depth.
C10_Witness ==
    /\ result.accept = "ok"
    /\ depth_ = 216116
    /\ current_block_.hash = GoodHash(216116)

\* A block refused for the hash of another checkpoint.
C10_Refused ==
    /\ result.accept = "checkpoints_failed"
    /\ depth_ = 11111
    /\ current_block_.hash = GoodHash(33333)

\* Some transaction of the block has the hash of a confirmed transaction
\* one of whose outputs is not spent.
DuplicatesUnspent ==
    \E i \in 1..Len(current_block_.transactions) :
        \E k \in 1..Len(view_.txs) :
            /\ view_.txs[k].hash = current_block_.transactions[i].hash
            /\ \E o \in 0..(Len(current_block_.transactions[i].outputs) - 1) :
                   OutPoint(current_block_.transactions[i].hash, o)
                       \notin view_.spent

\* C11: connect_block returns duplicate_or_spent exactly when the depth is
\* neither 91842 nor 91880 and a transaction of the block has the hash of a
\* confirmed transaction with an unspent output; at those two depths it
\* never does.
C11_DuplicateOrSpent ==
    result.connect.ec # "not_run" =>
        /\ result.connect.ec = "duplicate_or_spent" <=>
               depth_ \notin {91842, 91880} /\ DuplicatesUnspent
        /\ depth_ \in {91842, 91880} =>
               result.connect.ec # "duplicate_or_spent"

\* A block connected at an exempted depth although one of its transactions
\* is confirmed with its output unspent.
C11_Witness ==
    /\ result.connect.ec = "ok"
    /\ depth_ = 91880
    /\ DuplicatesUnspent

\* The same block refused one depth later.
C11_Refused ==
    /\ result.connect.ec = "duplicate_or_spent"
    /\ depth_ = 91881
    /\ DuplicatesUnspent

----------------------------------------------------------------------------
(* Claims about the functions applied on their own. *)

\* The integer a number of at most three bytes stands for.
IntOf(a) ==
    (IF a.neg THEN -1 ELSE 1)
      * ((IF Len(a.mag) >= 1 THEN a.mag[1] ELSE 0)
           + (IF Len(a.mag) >= 2 THEN a.mag[2] * 256 ELSE 0)
           + (IF Len(a.mag) >= 3 THEN a.mag[3] * 65536 ELSE 0))

Small(a) == Len(a.mag) <= 3

Returned12 == call.fn = "check_proof_of_work" /\ ret # <<>>

\* C12 as stated: check_proof_of_work(h, bits) is true exactly when
\* h <= decompact(bits) <= max_target.
C12_Original ==
    Returned12 =>
        ret[1] = (/\ big_compare(set_hash(call.block_hash),
                                 set_compact(call.bits)) <= 0
                  /\ big_compare(set_compact(call.bits), max_target) <= 0)

\* C12: check_proof_of_work(h, bits) is true exactly when
\* 0 < decompact(bits) <= max_target and h <= decompact(bits); it is false
\* for a target of zero, also for the hash zero.
C12_ProofOfWork ==
    Returned12 =>
        /\ ret[1] = (/\ ~set_compact(call.bits).neg
                     /\ set_compact(call.bits).mag # <<>>
                     /\ big_compare(set_compact(call.bits), max_target) <= 0
                     /\ big_compare(set_hash(call.block_hash),
                                    set_compact(call.bits)) <= 0)
        /\ Small(set_compact(call.bits)) /\ Small(set_hash(call.block_hash)) =>
               ret[1] = (/\ 0 < IntOf(set_compact(call.bits))
                         /\ IntOf(set_hash(call.block_hash))
                              <= IntOf(set_compact(call.bits)))

\* The hash zero refused against a target of zero.
C12_Witness ==
    /\ Returned12
    /\ call.block_hash = HashOf(<<>>)
    /\ call.bits = 50331648
    /\ ret = <<FALSE>>

\* A hash equal to its target accepted.
C12_Accepted ==
    /\ Returned12
    /\ call.block_hash = MaxTargetHash
    /\ call.bits = max_bits
    /\ ret = <<TRUE>>

RECURSIVE ValueSum(_)
\* The sum of the output values as integers, with no word to wrap in.
ValueSum(outs) ==
    IF outs = <<>> THEN 0 ELSE outs[1].value + ValueSum(Tail(outs))

\* C13: a transaction check_transaction returns OK for has an input and an
\* output, and its output values sum to at most max_money with no wrap of
\* the running sum; one with no input or no output gets empty_transaction.
C13_CheckedOutputs ==
    call.fn = "check_transaction" /\ ret # <<>> =>
        /\ ret[1] = "ok" =>
               /\ Len(call.tx.inputs) >= 1
               /\ Len(call.tx.outputs) >= 1
               /\ ValueSum(call.tx.outputs) <= max_money
               /\ \A k \in 1..Len(call.tx.outputs) :
                      ValueSum(SubSeq(call.tx.outputs, 1, k)) < WordModulus
        /\ call.tx.inputs = <<>> \/ call.tx.outputs = <<>> =>
               ret[1] = "empty_transaction"

\* A transaction accepted whose two outputs sum to max_money exactly.
C13_Witness ==
    /\ call.fn = "check_transaction"
    /\ ret = <<"ok">>
    /\ Len(call.tx.outputs) = 2
    /\ ValueSum(call.tx.outputs) = max_money

\* C18: an input whose parent is a coinbase passes connect_input only if
\* last_block_depth - parent_depth, as integers, is at least 100, also when
\* parent_depth is above last_block_depth.
C18_CoinbaseMaturity ==
    /\ call.fn = "connect_input"
    /\ ret # <<>>
    /\ is_coinbase(call.previous_tx)
    => (ret[1].ok => call.last_block_depth - call.parent_depth >= 100)

\* C18 for parents no deeper than the last block.
C18_ParentNotAbove ==
    /\ call.fn = "connect_input"
    /\ ret # <<>>
    /\ is_coinbase(call.previous_tx)
    /\ call.parent_depth <= call.last_block_depth
    => (ret[1].ok => call.last_block_depth - call.parent_depth >= 100)

\* A coinbase output spent at exactly 100 blocks.
C18_Mature ==
    /\ call.fn = "connect_input"
    /\ ret # <<>>
    /\ is_coinbase(call.previous_tx)
    /\ ret[1].ok
    /\ call.last_block_depth - call.parent_depth = 100

\* The N of op_N, 0 for any other opcode.
NumberOf(code) ==
    CASE code = "op_1" -> 1 [] code = "op_2" -> 2 [] code = "op_3" -> 3
      [] code = "op_4" -> 4 [] code = "op_5" -> 5 [] code = "op_6" -> 6
      [] code = "op_7" -> 7 [] code = "op_8" -> 8 [] code = "op_9" -> 9
      [] code = "op_10" -> 10 [] code = "op_11" -> 11 [] code = "op_12" -> 12
      [] code = "op_13" -> 13 [] code = "op_14" -> 14 [] code = "op_15" -> 15
      [] code = "op_16" -> 16 [] OTHER -> 0

\* What the operation at position k adds to the count: 1 for a checksig, for
\* a checkmultisig the N of the last op_N before it when the count is
\* accurate and there is one, 20 otherwise.
SigopsAt(ops, k, accurate) ==
    IF ops[k].code \in {"checksig", "checksigverify"} THEN 1
    ELSE IF ops[k].code \in {"checkmultisig", "checkmultisigverify"}
         THEN IF accurate /\ \E j \in 1..(k - 1) : NumberOf(ops[j].code) > 0
              THEN NumberOf(ops[CHOOSE j \in 1..(k - 1) :
                                   /\ NumberOf(ops[j].code) > 0
                                   /\ \A i \in (j + 1)..(k - 1) :
                                          NumberOf(ops[i].code) = 0].code)
              ELSE 20
    ELSE 0

RECURSIVE SigopsUpTo(_, _, _)
SigopsUpTo(ops, k, accurate) ==
    IF k = 0 THEN 0
    ELSE SigopsAt(ops, k, accurate) + SigopsUpTo(ops, k - 1, accurate)

\* C19: count_script_sigops adds 1 for each checksig and checksigverify,
\* and for each checkmultisig and checkmultisigverify the N of the most
\* recent op_N before it when accurate, 20 when not accurate or when no
\* op_N precedes it.
C19_SigopsCounted ==
    call.fn = "count_script_sigops" /\ ret # <<>> =>
        ret[1] = SigopsUpTo(call.operations, Len(call.operations),
                            call.accurate)

\* An accurate count of op_3, an operation that is no number, checkmultisig.
C19_Witness ==
    /\ call.fn = "count_script_sigops"
    /\ call.accurate
    /\ call.operations = <<Op("op_3", 1), Op("nop", 1), Op("checkmultisig", 1)>>
    /\ ret = <<3>>

\* clamp(actual, TARGET_TIMESPAN/4, TARGET_TIMESPAN*4)
Clamped(actual) ==
    IF actual < target_timespan \div 4 THEN target_timespan \div 4
    ELSE IF actual > target_timespan * 4 THEN target_timespan * 4
    ELSE actual

\* min(MAX_TARGET, a)
CappedTarget(a) == IF big_compare(a, max_target) > 0 THEN max_target ELSE a

WorkRequiredOf(depth, previous_bits, actual) ==
    work_required(depth, [previous_block_bits |-> previous_bits,
                          actual_timespan |-> actual])

\* C21: at height 0 work_required is MAX_BITS, at a height that is no
\* multiple of 2016 the previous block's bits; at a non-zero multiple of
\* 2016 it is the compact form of
\* min(MAX_TARGET, decompact(previous_bits) * clamp(actual) / TARGET_TIMESPAN):
\* a timespan below TARGET_TIMESPAN/4 gives what TARGET_TIMESPAN/4 gives, one
\* above TARGET_TIMESPAN*4 what TARGET_TIMESPAN*4 gives, and the result
\* never exceeds MAX_TARGET. For targets of at most 443 the quotient is
\* compared as an integer.
C21_WorkRequired ==
    call.fn = "work_required" /\ ret # <<>> =>
        /\ call.depth = 0 => ret[1] = max_bits
        /\ call.depth % readjustment_interval # 0 => ret[1] = call.previous_bits
        /\ call.depth # 0 /\ call.depth % readjustment_interval = 0 =>
               /\ ret[1] = compact(CappedTarget(
                               big_div(big_mul(set_compact(call.previous_bits),
                                               Clamped(call.actual)),
                                       target_timespan)))
               /\ big_compare(set_compact(ret[1]), max_target) <= 0
               /\ /\ Small(set_compact(call.previous_bits))
                  /\ IntOf(set_compact(call.previous_bits)) \in 0..443
                  => /\ Small(set_compact(ret[1]))
                     /\ IntOf(set_compact(ret[1]))
                          = (IntOf(set_compact(call.previous_bits))
                               * Clamped(call.actual)) \div target_timespan
               /\ call.actual < target_timespan \div 4 =>
                      ret[1] = WorkRequiredOf(call.depth, call.previous_bits,
                                              target_timespan \div 4)
               /\ call.actual > target_timespan * 4 =>
                      ret[1] = WorkRequiredOf(call.depth, call.previous_bits,
                                              target_timespan * 4)

\* A retarget on a timespan of an eighth of the target timespan: a quarter
\* of the previous target.
C21_Witness ==
    /\ call.fn = "work_required"
    /\ call.depth = readjustment_interval
    /\ call.previous_bits = max_bits
    /\ call.actual = target_timespan \div 8
    /\ ret = <<QuarterBits>>

\* A retarget that would exceed max_target.
C21_Capped ==
    /\ call.fn = "work_required"
    /\ call.depth = 2 * readjustment_interval
    /\ call.previous_bits = max_bits
    /\ call.actual > target_timespan
    /\ ret = <<max_bits>>

\* A target of 100 over twice the target timespan: 200.
C21_Doubled ==
    /\ call.fn = "work_required"
    /\ call.depth = readjustment_interval
    /\ IntOf(set_compact(call.previous_bits)) = 100
    /\ call.actual = target_timespan * 2
    /\ ret # <<>>
    /\ IntOf(set_compact(ret[1])) = 200

\* C22: whenever validate_block::connect_input is reached through start
\* with bip16_enabled true (the block's timestamp is at least
\* bip16_switchover_timestamp), the block's depth is at least
\* bip16_switchover_depth: the assertion before the script run holds.
C22_Bip16Assertion ==
    result.connect.ec # "not_run" => result.connect.asserted

\* At bip16_switchover_depth and above, and before the switchover time, the
\* assertion holds.
C22_AtSwitchover ==
    /\ result.connect.ec # "not_run"
    /\ \/ depth_ >= bip16_switchover_depth
       \/ current_block_.timestamp < bip16_switchover_timestamp
    => result.connect.asserted

\* A block after the switchover time at the switchover depth whose input
\* was connected.
C22_Enabled ==
    /\ result.ec = "ok"
    /\ depth_ = bip16_switchover_depth
    /\ current_block_.timestamp >= bip16_switchover_timestamp
    /\ Len(current_block_.transactions) = 2
    /\ result.connect.asserted

\* Input i of transaction t of the block names an output that the
\* confirmed transaction it spends does not have.
OutsideOutputs(t, i) ==
    LET previous_output == current_block_.transactions[t].inputs[i].previous_output IN
    /\ ~is_coinbase(current_block_.transactions[t])
    /\ chain_entry(view_.txs, previous_output.hash) # NoEntry
    /\ previous_output.index
         >= Len(chain_entry(view_.txs, previous_output.hash).tx.outputs)

SpendsOutside ==
    \E t \in 1..Len(current_block_.transactions) :
        \E i \in 1..Len(current_block_.transactions[t].inputs) :
            OutsideOutputs(t, i)

\* C25: validate_block::connect_input reads no output outside the list of
\* the previous transaction: a block with an input whose previous_output
\* index is not below the number of outputs of the fetched transaction is
\* not connected, and the read does not end the program.
C25_OutputIndexChecked ==
    /\ result.connect.ec \notin {"not_run", "duplicate_or_spent"}
    /\ SpendsOutside
    => /\ ~result.connect.fault
       /\ result.connect.ec # "ok"

\* A block whose inputs all name outputs that exist is connected without a
\* read outside the output list.
C25_InsideNoFault ==
    ~SpendsOutside => ~result.connect.fault

\* A block spending a:2, which a does not have, accepted.
C25_Accepted ==
    /\ result.ec = "ok"
    /\ SpendsOutside

====
